---------------------------- MODULE Spec2Model ----------------------------
(***************************************************************************)
(* SBK_BarDrive: the segment address resolver (SBK_BarMeter) and the       *)
(* animation engine (SBK_BarMeterAnimations), as state machines.           *)
(*                                                                         *)
(* bar    : the SBK_BarMeter configuration (resolver state)                *)
(* leds   : the driver's LED buffer, the set of lit (device,row,col)       *)
(* res    : the last address handed to the driver by _getMappedDevRowCol   *)
(* anim   : the engines, one record of member fields per engine instance   *)
(* pix    : per engine, the LED buffer of its bar, by logical segment      *)
(* shared : the function-local statics of the template (one per program)  *)
(* clock  : the millisecond counter, millis()                              *)
(* hist   : observation of the last engine call (what it was, what it      *)
(*          returned, how many update() calls were made since the start)   *)
(*          and, where the calls are counted, the last start or control    *)
(*          call (ctl) and the count of update() calls when it was made    *)
(*          (mark); for a call on the bar, mark is the segment argument    *)
(***************************************************************************)
EXTENDS Integers, Naturals, Sequences, FiniteSets, TLC

VARIABLES bar, leds, res, anim, pix, shared, clock, hist

vars == <<bar, leds, res, anim, pix, shared, clock, hist>>

resolverVars == <<bar, leds, res>>

engineVars == <<anim, pix, shared, clock, hist>>

-----------------------------------------------------------------------------
(* Fixed-width integer arithmetic of the target (uint8_t, int8_t, ...).    *)

U8(x) == x % 256

I8(x) == ((x + 128) % 256) - 128

U16(x) == x % 65536

Max2(a, b) == IF a >= b THEN a ELSE b

Min2(a, b) == IF a <= b THEN a ELSE b

Constrain(x, lo, hi) == IF x < lo THEN lo ELSE IF x > hi THEN hi ELSE x

(* C integer division truncates toward zero. *)
CDiv(a, b) ==
    IF (a >= 0) = (b > 0)
    THEN (IF a >= 0 THEN a ELSE -a) \div (IF b > 0 THEN b ELSE -b)
    ELSE -((IF a >= 0 THEN a ELSE -a) \div (IF b > 0 THEN b ELSE -b))

(* Arduino map(): long arithmetic, truncating division. *)
ArduinoMap(x, inMin, inMax, outMin, outMax) ==
    CDiv((x - inMin) * (outMax - outMin), inMax - inMin) + outMin

-----------------------------------------------------------------------------
(* The transport (external collaborator): the driver of the split-device   *)
(* example, two devices of 8 rows and 8 columns.                           *)

DevsNum == 2

MaxRows == 8

MaxColumns == 8

maxRows(dev) == MaxRows

maxColumns == MaxColumns

maxSegments(dev) == maxRows(dev) * maxColumns

-----------------------------------------------------------------------------
(* SBK_BarMeter: constructors.                                             *)

FORWARD == 0

REVERSE == 1

NoMapping == << >>

(* The last device a base index can name: _devIdx is held to 0 .. 7.       *)
MaxDevIdx == 7

(* The members before the constructor body runs (default initialisers),    *)
(* with the driver's devsNum() and the devIdx argument as given.            *)
BarDefaults(devsNum, devIdx, direction) ==
    [ devsNum |-> devsNum,
      devIdx |-> devIdx,
      _devIdx |-> Constrain(devIdx, 0, MaxDevIdx),
      _customMapping |-> NoMapping,
      _direction |-> direction,
      _segOffset |-> 0,
      _rowOffset |-> 0,
      _colOffset |-> 0,
      _isMatrixMapped |-> FALSE,
      _segsNum |-> 0,
      _rowsNum |-> 0,
      _colsNum |-> 0,
      _userMappingIsProgmem |-> FALSE ]

DevInvalid(b) == b._devIdx > b.devsNum - 1

(* _initializePresetMapping *)
InitializePresetMapping(b, preset) ==
    LET p == IF preset = "SBK_BarMeter_SK28" THEN "BL28_3005SK"
             ELSE IF preset = "SBK_BarMeter_SA28" THEN "BL28_3005SA"
             ELSE preset
    IN  CASE p = "BL28_3005SK" ->
               [b EXCEPT !._segsNum = 28, !._rowsNum = 4, !._colsNum = 7,
                         !._isMatrixMapped = TRUE]
          [] p = "BL28_3005SA" ->
               [b EXCEPT !._segsNum = 28, !._rowsNum = 7, !._colsNum = 4,
                         !._isMatrixMapped = TRUE]
          [] OTHER ->
               [b EXCEPT !._rowsNum = maxRows(b._devIdx),
                         !._colsNum = maxColumns,
                         !._segsNum = U8(maxRows(b._devIdx) * maxColumns),
                         !._isMatrixMapped = FALSE]

(* SBK_BarMeter(driver, devIdx, matrixPreset, direction, rowOffset, colOffset) *)
BarPreset(devsNum, devIdx, preset, direction, rowOffset, colOffset) ==
    LET b0 == [BarDefaults(devsNum, devIdx, direction) EXCEPT !._isMatrixMapped = TRUE]
    IN  IF DevInvalid(b0)
        THEN [InitializePresetMapping(b0, "NONE") EXCEPT
                 !._segsNum = 0, !._rowsNum = 0, !._colsNum = 0,
                 !._rowOffset = 0, !._colOffset = 0]
        ELSE [InitializePresetMapping(b0, preset) EXCEPT
                 !._rowOffset = Constrain(rowOffset, 0, maxRows(b0._devIdx) - 1),
                 !._colOffset = Constrain(colOffset, 0, maxColumns - 1)]

(* SBK_BarMeter(driver, devIdx, rowsNum, colsNum, direction, rowOffset,    *)
(* colOffset): _segsNum has no initialiser and the valid-device branch     *)
(* never assigns it, so it holds whatever value `garbage` the memory had.  *)
BarMatrix(devsNum, devIdx, rowsNum, colsNum, direction, rowOffset, colOffset, garbage) ==
    LET b0 == [BarDefaults(devsNum, devIdx, direction) EXCEPT !._isMatrixMapped = TRUE]
    IN  IF DevInvalid(b0)
        THEN [b0 EXCEPT !._segsNum = 0, !._rowsNum = 0, !._colsNum = 0,
                        !._rowOffset = 0, !._colOffset = 0]
        ELSE [b0 EXCEPT !._segsNum = garbage,
                        !._rowsNum = Constrain(rowsNum, 1, 255),
                        !._colsNum = Constrain(colsNum, 1, maxColumns),
                        !._rowOffset = Constrain(rowOffset, 0, maxRows(b0._devIdx) - 1),
                        !._colOffset = Constrain(colOffset, 0, maxColumns - 1)]

(* SBK_BarMeter(driver, devIdx, segsNum, direction, segOffset) *)
BarSegs(devsNum, devIdx, segsNum, direction, segOffset) ==
    LET b0 == [BarDefaults(devsNum, devIdx, direction) EXCEPT
                  !._segsNum = segsNum, !._isMatrixMapped = FALSE]
    IN  IF DevInvalid(b0)
        THEN [b0 EXCEPT !._segsNum = 0, !._rowsNum = 0, !._colsNum = 0,
                        !._segOffset = 0]
        ELSE [b0 EXCEPT !._rowsNum = maxRows(b0._devIdx),
                        !._colsNum = maxColumns,
                        !._segOffset = Constrain(segOffset, 0, maxSegments(b0._devIdx) - 1)]

(* SBK_BarMeter(driver, devIdx, mapping[N][3], direction, progmem,         *)
(* rowOffset, colOffset)                                                   *)
BarCustom(devsNum, devIdx, mapping, direction, progmem, rowOffset, colOffset) ==
    LET b0 == [BarDefaults(devsNum, devIdx, direction) EXCEPT
                  !._customMapping = mapping,
                  !._userMappingIsProgmem = progmem,
                  !._isMatrixMapped = TRUE]
    IN  IF DevInvalid(b0)
        THEN [b0 EXCEPT !._segsNum = 0, !._rowsNum = 0, !._colsNum = 0,
                        !._rowOffset = 0, !._colOffset = 0]
        ELSE [b0 EXCEPT !._segsNum = Len(mapping),
                        !._rowsNum = maxRows(b0._devIdx),
                        !._colsNum = maxColumns,
                        !._rowOffset = Constrain(rowOffset, 0, maxRows(b0._devIdx) - 1),
                        !._colOffset = Constrain(colOffset, 0, maxColumns - 1)]

-----------------------------------------------------------------------------
(* SBK_BarMeter::_getMappedDevRowCol                                       *)

(* A read of mapping[i] ; the table is 0-based in the source. *)
TableAt(b, i) == b._customMapping[i + 1]

CustomBranchProgmem(b, mappedSeg) ==
    [dev |-> TableAt(b, mappedSeg)[1],
     row |-> TableAt(b, mappedSeg)[2],
     col |-> TableAt(b, mappedSeg)[3]]

CustomBranchRam(b, mappedSeg) ==
    [dev |-> TableAt(b, mappedSeg)[1],
     row |-> U8(TableAt(b, mappedSeg)[2] + b._rowOffset),
     col |-> U8(TableAt(b, mappedSeg)[3] + b._colOffset)]

(* The auto mapping with the matrix branch laid out row-major as well.     *)
AutoMappingRowMajor(b, mappedSeg) ==
    LET segPerDev == U8(maxRows(b._devIdx) * maxColumns)
        baseDevIdx == U8(b._devIdx + (mappedSeg \div segPerDev))
        localIdx == mappedSeg % segPerDev
    IN  IF b._isMatrixMapped
        THEN [dev |-> baseDevIdx,
              row |-> U8((localIdx \div b._colsNum) + b._rowOffset),
              col |-> U8((localIdx % b._colsNum) + b._colOffset)]
        ELSE [dev |-> baseDevIdx,
              row |-> localIdx \div maxColumns,
              col |-> localIdx % maxColumns]

AutoMapping(b, mappedSeg) ==
    LET segPerDev == U8(maxRows(b._devIdx) * maxColumns)
        baseDevIdx == U8(b._devIdx + (mappedSeg \div segPerDev))
        localIdx == mappedSeg % segPerDev
    IN  IF b._isMatrixMapped
        THEN [dev |-> baseDevIdx,
              row |-> U8((localIdx % b._rowsNum) + b._rowOffset),
              col |-> U8((localIdx \div b._rowsNum) + b._colOffset)]
        ELSE [dev |-> baseDevIdx,
              row |-> localIdx \div maxColumns,
              col |-> localIdx % maxColumns]

(* The direction correction left out: the index is used as given.          *)
DirCorrectedNoReverse(b, seg) == seg

DirCorrected(b, seg) ==
    IF b._direction = REVERSE THEN U8(b._segsNum - 1 - seg) ELSE seg

GetMappedDevRowCol(b, seg) ==
    LET mappedSeg == U8(DirCorrected(b, seg)
                        + (IF b._isMatrixMapped THEN 0 ELSE b._segOffset))
    IN  IF b._customMapping # NoMapping
        THEN IF b._userMappingIsProgmem
             THEN CustomBranchProgmem(b, mappedSeg)
             ELSE CustomBranchRam(b, mappedSeg)
        ELSE AutoMapping(b, mappedSeg)


-----------------------------------------------------------------------------
(* SBK_BarMeter::setPixel / clear on the bar of one engine. The LED buffer *)
(* of a bar is kept by logical segment: p[seg] for seg in 0 .. n-1.        *)

(* setPixel(segment, state): rejected when segment >= _segsNum. *)
SetPixel(p, n, seg, state) ==
    IF seg >= n \/ seg < 0 THEN p ELSE [p EXCEPT ![seg] = state]

(* getPixelState(segment): 0 when segment >= _segsNum. *)
GetPixelState(p, n, seg) ==
    IF seg >= n \/ seg < 0 THEN FALSE ELSE p[seg]

(* clear(): every segment off. *)
Clear(n) == [k \in 0 .. n - 1 |-> FALSE]

AllOn(n) == [k \in 0 .. n - 1 |-> TRUE]

-----------------------------------------------------------------------------
(* SBK_BarMeterAnimations: member fields after construction followed by    *)
(* setSegsNum(n), as the SBK_BarDrive constructors do.                     *)

nullptr == "nullptr"

NoBlocks == << >>

EngineDefaults(n) ==
    [ _segsNum |-> n,
      _currentFunc |-> nullptr,
      _init |-> TRUE,
      _isRunning |-> FALSE,
      _isPaused |-> FALSE,
      _loop |-> FALSE,
      _isLoopingNow |-> FALSE,
      _AnimInitLogicIsInverted |-> FALSE,
      _animRenderLogicIsInverted |-> FALSE,
      _prevAnimRenderLogic |-> FALSE,
      _isNonInvertingLogicAnim |-> FALSE,
      _animLogicSet |-> FALSE,
      _skipPending |-> FALSE,
      _animRenderDirIsReversed |-> FALSE,
      _AnimInitDirIsReversed |-> FALSE,
      _animDirSet |-> FALSE,
      _usePtr |-> FALSE,
      _emittingBlocksEnabled |-> TRUE,
      _currentTime |-> 0,
      _lastUpdate1 |-> 0,
      _updateIntv1 |-> 10,
      _updateIntv2 |-> 10,
      _updateIntv3 |-> 10,
      _sequenceState |-> 0,
      _ledTracker1 |-> 0,
      _minTracker |-> 0,
      _maxTracker |-> I8(n - 1),
      _param1 |-> 0, _param2 |-> 0, _param3 |-> 0, _param4 |-> 0, _param5 |-> 0,
      _counter1 |-> 0,
      _counter2 |-> 0,
      _blocks |-> NoBlocks,
      poolFault |-> FALSE,
      _mirrorHalfRangeDir |-> FALSE,
      _lastUpdate2 |-> 0,
      _lastUpdate3 |-> 0,
      _ledTracker2 |-> 0,
      _ledTracker3 |-> 0,
      divByZero |-> FALSE,
      _smoothedValue1 |-> 0,
      _smoothedValue2 |-> 0,
      _minMap |-> 0,
      _maxMap |-> 1023,
      _sigPtr1 |-> nullptr,
      _sigPtr2 |-> nullptr,
      nullDeref |-> FALSE ]

(* _normalizePercentRange: <<minP, maxP>> after clamping, swap and nudge. *)
NormalizePercentRange(minP0, maxP0) ==
    LET lo == Constrain(minP0, 0, 100)
        hi == Constrain(maxP0, 0, 100)
        mn == IF lo > hi THEN hi ELSE lo
        mx == IF lo > hi THEN lo ELSE hi
    IN  IF mn = mx
        THEN IF mx < 100 THEN <<mn, U8(mn + 1)>> ELSE <<U8(mn - 1), mx>>
        ELSE <<mn, mx>>

(* _mapMinMaxTracker(minP, maxP, minR, maxR) *)
MapMinMaxTracker(a, minP, maxP, minR, maxR) ==
    LET r == NormalizePercentRange(minP, maxP)
    IN  [a EXCEPT !._minTracker = I8(ArduinoMap(r[1], 0, 100, minR, maxR)),
                  !._maxTracker = I8(ArduinoMap(r[2], 0, 100, minR, maxR))]

(* _corrPixelToDir(uint8_t pixel) *)
CorrPixelToDir(a, pixel) ==
    IF a._animRenderDirIsReversed THEN U8((a._segsNum - 1) - U8(pixel)) ELSE U8(pixel)

-----------------------------------------------------------------------------
(* Start functions: engine record -> engine record.                        *)

(* setAllOn() *)
StartSetAllOn(a) ==
    [a EXCEPT !._currentFunc = "_setAllOn", !._isRunning = TRUE, !._init = TRUE]

(* setAllOff() *)
StartSetAllOff(a) ==
    [a EXCEPT !._currentFunc = "_setAllOff", !._isRunning = TRUE, !._init = TRUE]

(* The assignments shared by the eight interval-based fill/empty starters. *)
StartFillOrEmpty(a, dirReversed, logicInverted, updateIntv, maxPercent, minPercent) ==
    LET a1 == [a EXCEPT !._isNonInvertingLogicAnim = FALSE,
                        !._animRenderDirIsReversed = dirReversed,
                        !._AnimInitLogicIsInverted = logicInverted,
                        !._usePtr = FALSE,
                        !._sigPtr2 = nullptr,
                        !._sigPtr1 = nullptr]
        a2 == MapMinMaxTracker(a1, minPercent, maxPercent, 0, U8(a._segsNum - 1))
    IN  [a2 EXCEPT !._isRunning = TRUE,
                   !._updateIntv1 = Max2(5, updateIntv),
                   !._currentFunc = "_fillOrEmpty"]

(* fillUpIntv(updateIntv, maxPercent, minPercent) *)
fillUpIntv(a, updateIntv, maxPercent, minPercent) ==
    StartFillOrEmpty(a, FALSE, FALSE, updateIntv, maxPercent, minPercent)

(* fillDownIntv(updateIntv, maxPercent, minPercent) *)
fillDownIntv(a, updateIntv, maxPercent, minPercent) ==
    StartFillOrEmpty(a, TRUE, FALSE, updateIntv, maxPercent, minPercent)

(* emptyDownIntv(updateIntv, maxPercent, minPercent) *)
emptyDownIntv(a, updateIntv, maxPercent, minPercent) ==
    StartFillOrEmpty(a, FALSE, TRUE, updateIntv, maxPercent, minPercent)

(* emptyUpIntv(updateIntv, maxPercent, minPercent) *)
emptyUpIntv(a, updateIntv, maxPercent, minPercent) ==
    StartFillOrEmpty(a, TRUE, TRUE, updateIntv, maxPercent, minPercent)

(* bounceFillUpIntv(fillIntv, emptyIntv, maxPercent, minPercent) *)
bounceFillUpIntv(a, fillIntv, emptyIntv, maxPercent, minPercent) ==
    LET a1 == [a EXCEPT !._isNonInvertingLogicAnim = TRUE,
                        !._animRenderDirIsReversed = FALSE,
                        !._AnimInitLogicIsInverted = FALSE,
                        !._usePtr = FALSE,
                        !._sigPtr2 = nullptr,
                        !._sigPtr1 = nullptr]
        a2 == MapMinMaxTracker(a1, minPercent, maxPercent, 0, U8(a._segsNum - 1))
    IN  [a2 EXCEPT !._updateIntv1 = Max2(5, fillIntv),
                   !._updateIntv2 = Max2(5, fillIntv),
                   !._updateIntv3 = Max2(5, emptyIntv),
                   !._sequenceState = 0,
                   !._isRunning = TRUE,
                   !._currentFunc = "_bounceFill"]

(* The assignments shared by the fixed-range half-range bounce starters.   *)
StartHalfRangeBounce(a, fromEdges, fillIntv, emptyIntv, maxPercent, minPercent) ==
    LET a1 == [a EXCEPT !._isNonInvertingLogicAnim = TRUE,
                        !._AnimInitLogicIsInverted = FALSE,
                        !._animRenderDirIsReversed = FALSE,
                        !._mirrorHalfRangeDir = fromEdges,
                        !._usePtr = FALSE,
                        !._sigPtr2 = nullptr,
                        !._sigPtr1 = nullptr]
        a2 == MapMinMaxTracker(a1, minPercent, maxPercent,
                               U8((a._segsNum \div 2) - 1), 0)
    IN  [a2 EXCEPT !._updateIntv1 = fillIntv,
                   !._updateIntv2 = fillIntv,
                   !._updateIntv3 = emptyIntv,
                   !._sequenceState = 0,
                   !._isRunning = TRUE,
                   !._currentFunc = "_bounceFillHalfRangeMirrorCenter"]

(* bounceFillFromCenterIntv(fillIntv, emptyIntv, maxPercent, minPercent) *)
bounceFillFromCenterIntv(a, fillIntv, emptyIntv, maxPercent, minPercent) ==
    StartHalfRangeBounce(a, FALSE, fillIntv, emptyIntv, maxPercent, minPercent)

(* bounceFillFromEdgesIntv(fillIntv, emptyIntv, maxPercent, minPercent) *)
bounceFillFromEdgesIntv(a, fillIntv, emptyIntv, maxPercent, minPercent) ==
    StartHalfRangeBounce(a, TRUE, fillIntv, emptyIntv, maxPercent, minPercent)

(* The assignments shared by explodingBlocks and collidingBlocks. *)
StartMirrorBlocks(a, logicInverted, intv, blockLength, blockSpacing, numBlocks) ==
    [a EXCEPT !._updateIntv1 = Max2(5, intv),
              !._param1 = blockLength,
              !._param2 = blockSpacing,
              !._param3 = numBlocks,
              !._param4 = Constrain(
                  U8(((a._segsNum \div 2) \div (blockLength + blockSpacing)) + 2), 2, 32),
              !._isNonInvertingLogicAnim = FALSE,
              !._animRenderDirIsReversed = FALSE,
              !._AnimInitLogicIsInverted = logicInverted,
              !._isRunning = TRUE,
              !._currentFunc = "_mirrorBlocks"]

(* explodingBlocks(intv, blockLength, blockSpacing, numBlocks) *)
explodingBlocks(a, intv, blockLength, blockSpacing, numBlocks) ==
    StartMirrorBlocks(a, TRUE, intv, blockLength, blockSpacing, numBlocks)

(* collidingBlocks(intv, blockLength, blockSpacing, numBlocks) *)
collidingBlocks(a, intv, blockLength, blockSpacing, numBlocks) ==
    StartMirrorBlocks(a, FALSE, intv, blockLength, blockSpacing, numBlocks)

(* The assignments shared by the four stacking start functions. *)
StartStackingBlocks(a, dirReversed, logicInverted, intv, blockLength, blockSpacing) ==
    [a EXCEPT !._isNonInvertingLogicAnim = FALSE,
              !._animRenderDirIsReversed = dirReversed,
              !._AnimInitLogicIsInverted = logicInverted,
              !._updateIntv1 = Max2(5, intv),
              !._param1 = blockLength,
              !._param2 = blockSpacing,
              !._param3 = 0,
              !._param4 = 1,
              !._emittingBlocksEnabled = IF a._init THEN TRUE ELSE a._emittingBlocksEnabled,
              !._isRunning = TRUE,
              !._currentFunc = "_stackingBlocks"]

(* downStackingBlocks(intv, blockLength, blockSpacing) *)
downStackingBlocks(a, intv, blockLength, blockSpacing) ==
    StartStackingBlocks(a, FALSE, FALSE, intv, blockLength, blockSpacing)

(* upUnstackingBlocks(intv, blockLength, blockSpacing) *)
upUnstackingBlocks(a, intv, blockLength, blockSpacing) ==
    StartStackingBlocks(a, FALSE, TRUE, intv, blockLength, blockSpacing)

(* upStackingBlocks(intv, blockLength, blockSpacing) *)
upStackingBlocks(a, intv, blockLength, blockSpacing) ==
    StartStackingBlocks(a, TRUE, FALSE, intv, blockLength, blockSpacing)

(* downUnstackingBlocks(intv, blockLength, blockSpacing) *)
downUnstackingBlocks(a, intv, blockLength, blockSpacing) ==
    StartStackingBlocks(a, TRUE, TRUE, intv, blockLength, blockSpacing)

(* The assignments shared by scrollingUpBlocks and scrollingDownBlocks. *)
StartScrollingBlocks(a, logicInverted, intv, blockLength, blockSpacing, numBlocks) ==
    [a EXCEPT !._updateIntv1 = Max2(5, intv),
              !._param1 = blockLength,
              !._param2 = blockSpacing,
              !._param3 = numBlocks,
              !._param4 = Constrain(
                  U8((a._segsNum \div (blockLength + blockSpacing)) + 2), 2, 64),
              !._isNonInvertingLogicAnim = FALSE,
              !._animRenderDirIsReversed = FALSE,
              !._AnimInitLogicIsInverted = logicInverted,
              !._isRunning = TRUE,
              !._currentFunc = "_scrollingBlocks"]

(* scrollingUpBlocks(intv, blockLength, blockSpacing, numBlocks) *)
scrollingUpBlocks(a, intv, blockLength, blockSpacing, numBlocks) ==
    StartScrollingBlocks(a, FALSE, intv, blockLength, blockSpacing, numBlocks)

(* scrollingDownBlocks(intv, blockLength, blockSpacing, numBlocks) *)
scrollingDownBlocks(a, intv, blockLength, blockSpacing, numBlocks) ==
    StartScrollingBlocks(a, TRUE, intv, blockLength, blockSpacing, numBlocks)

(* _correctSwapOrEqualMinMax(minVal, maxVal): <<minVal, maxVal>> after it. *)
(* The test `maxVal < 65, 535` is a comma expression whose value is 535,   *)
(* so equal bounds are always separated by maxVal = minVal + 1 (uint16_t). *)
CorrectSwapOrEqualMinMax(minVal, maxVal) ==
    LET mn == Min2(minVal, maxVal)
        mx == Max2(minVal, maxVal)
    IN  IF mn = mx THEN <<mn, U16(mn + 1)>> ELSE <<mn, mx>>

(* _getMappedSignal(sig, minM, maxM, minR, maxR) *)
GetMappedSignal(sig, minM, maxM, minR, maxR) ==
    Constrain(U8(ArduinoMap(sig, minM, maxM, minR, maxR)), minR, maxR)

(* The assignments shared by the signal-follower start functions. A signal *)
(* pointer is nullptr or the name of the program variable it points to.    *)
StartFollow(a, func, updateIntv, minMap, maxMap, smoothingFactor, samplingIntv, nonInverting, dirReversed) ==
    LET mm == CorrectSwapOrEqualMinMax(Max2(0, minMap), Max2(0, maxMap))
    IN  [a EXCEPT !._updateIntv1 = Max2(10, updateIntv),
                  !._minMap = mm[1],
                  !._maxMap = mm[2],
                  !._param1 = Constrain(smoothingFactor, 0, 100),
                  !._updateIntv2 = samplingIntv,
                  !._isNonInvertingLogicAnim = nonInverting,
                  !._animRenderDirIsReversed = dirReversed,
                  !._AnimInitLogicIsInverted = FALSE,
                  !._isRunning = TRUE,
                  !._init = TRUE,
                  !._currentFunc = func]

(* followSignalSmooth(sigPtr, updateIntv, minMap, maxMap, smoothingFactor, *)
(* samplingIntv)                                                           *)
followSignalSmooth(a, sigPtr, updateIntv, minMap, maxMap, smoothingFactor, samplingIntv) ==
    StartFollow([a EXCEPT !._sigPtr1 = sigPtr], "_followSignalSmooth", updateIntv,
                minMap, maxMap, smoothingFactor, samplingIntv, TRUE, FALSE)

(* followSignalWithPointer(sigPtr, updateIntv, ...) *)
followSignalWithPointer(a, sigPtr, updateIntv, minMap, maxMap, smoothingFactor, samplingIntv) ==
    StartFollow([a EXCEPT !._sigPtr1 = sigPtr], "_followSignalWithPointer", updateIntv,
                minMap, maxMap, smoothingFactor, samplingIntv, TRUE, FALSE)

(* followDualSignalFromCenter(sig1Ptr, updateIntv, sig2Ptr, ...) *)
followDualSignalFromCenter(a, sig1Ptr, updateIntv, sig2Ptr, minMap, maxMap, smoothingFactor, samplingIntv) ==
    StartFollow([a EXCEPT !._sigPtr1 = sig1Ptr,
                          !._sigPtr2 = IF sig2Ptr # nullptr THEN sig2Ptr ELSE sig1Ptr],
                "_followDualSignalCenterMirror", updateIntv,
                minMap, maxMap, smoothingFactor, samplingIntv, FALSE, FALSE)

(* followDualSignalFromEdges(sig1Ptr, updateIntv, sig2Ptr, ...) *)
followDualSignalFromEdges(a, sig1Ptr, updateIntv, sig2Ptr, minMap, maxMap, smoothingFactor, samplingIntv) ==
    StartFollow([a EXCEPT !._sigPtr1 = sig1Ptr,
                          !._sigPtr2 = IF sig2Ptr # nullptr THEN sig2Ptr ELSE sig1Ptr],
                "_followDualSignalCenterMirror", updateIntv,
                minMap, maxMap, smoothingFactor, samplingIntv, FALSE, TRUE)

(* followSignalFloatingPeak(sigPtr, peakHoldTime, updateIntv, ...) *)
followSignalFloatingPeak(a, sigPtr, peakHoldTime, updateIntv, minMap, maxMap, smoothingFactor, samplingIntv) ==
    StartFollow([a EXCEPT !._sigPtr1 = sigPtr,
                          !._updateIntv3 = Max2(20, peakHoldTime)],
                "_followSignalFloatingPeak", updateIntv,
                minMap, maxMap, smoothingFactor, samplingIntv, TRUE, FALSE)

(* beatPulse(uint8_t bpm) *)
beatPulse(a, bpm) ==
    [a EXCEPT !._param1 = Max2(1, bpm),
              !._param2 = Min2((35 * (a._segsNum - 1)) \div 100, 255),
              !._param3 = Min2((67 * (a._segsNum - 1)) \div 100, 255),
              !._param4 = 150,
              !._sigPtr1 = nullptr,
              !._usePtr = FALSE,
              !._isNonInvertingLogicAnim = TRUE,
              !._AnimInitLogicIsInverted = FALSE,
              !._animRenderDirIsReversed = FALSE,
              !._isRunning = TRUE,
              !._currentFunc = "_beatPulse",
              !._init = TRUE]

(* beatPulse(uint8_t *bpmPtr): _param2 is assigned twice and _param3 not   *)
(* at all, and `_init - true;` assigns nothing.                            *)
beatPulsePtr(a, bpmPtr) ==
    [a EXCEPT !._sigPtr1 = bpmPtr,
              !._param2 = Min2((67 * (a._segsNum - 1)) \div 100, 255),
              !._param4 = 150,
              !._usePtr = TRUE,
              !._isNonInvertingLogicAnim = TRUE,
              !._AnimInitLogicIsInverted = FALSE,
              !._animRenderDirIsReversed = FALSE,
              !._isRunning = TRUE,
              !._currentFunc = "_beatPulse"]

(* randomFill(interval) *)
randomFill(a, interval) ==
    [a EXCEPT !._updateIntv1 = interval,
              !._isNonInvertingLogicAnim = FALSE,
              !._animRenderDirIsReversed = FALSE,
              !._AnimInitLogicIsInverted = FALSE,
              !._isRunning = TRUE,
              !._currentFunc = "_randomPixelUpdater",
              !._init = TRUE]


-----------------------------------------------------------------------------
(* Algorithm step functions. A step takes the engine record a, the pixel   *)
(* buffer p of its bar and the statics s, and yields the three after the   *)
(* call together with the value returned (done = "complete").              *)

Step(a, p, s, done) == [a |-> a, p |-> p, s |-> s, done |-> done]

(* if (!_animLogicSet) _prevAnimRenderLogic = _animRenderLogicIsInverted = *)
(*     _AnimInitLogicIsInverted;                                           *)
ResetLogicAtInit(a) ==
    IF a._animLogicSet THEN a
    ELSE [a EXCEPT !._prevAnimRenderLogic = a._AnimInitLogicIsInverted,
                   !._animRenderLogicIsInverted = a._AnimInitLogicIsInverted]

(* _currentTime - _lastUpdate1 >= _updateIntv1, in uint32_t *)
(* The subtraction is on unsigned long; the clock here is monotone and stays *)
(* far below 2^32, so the difference never wraps.                           *)
(* The interval test with the gate left out. *)
IntervalNeverGates(a) == a._currentTime - a._lastUpdate1 >= 0

IntervalElapsed(a) == a._currentTime - a._lastUpdate1 >= a._updateIntv1

(* _setAllOn *)
SetAllOnStep(a, p, s) ==
    Step([a EXCEPT !._init = FALSE], AllOn(a._segsNum), s, TRUE)

(* _setAllOff *)
SetAllOffStep(a, p, s) ==
    Step([a EXCEPT !._init = FALSE], Clear(a._segsNum), s, TRUE)

(* A faulty pre-fill: the comparison i < level in place of i <= level, so   *)
(* that the segment at the starting level is left dark.                    *)
PreFillExclusive(a, level) ==
    [k \in 0 .. a._segsNum - 1 |->
        \E i \in 0 .. a._segsNum - 1 :
            (IF a._animRenderDirIsReversed THEN (a._segsNum - 1) - i ELSE i) = k
            /\ i < level]

(* The pre-fill loop of _fillOrEmpty: segment i is written at the          *)
(* direction-corrected place, lit iff i <= level.                          *)
PreFill(a, level) ==
    [k \in 0 .. a._segsNum - 1 |->
        \E i \in 0 .. a._segsNum - 1 : CorrPixelToDir(a, i) = k /\ i <= level]

(* _fillOrEmpty, init block: the tracker start and the pre-fill, by the     *)
(* rendering logic.                                                        *)
PreFillFrom(a1, p, s) ==
    IF a1._animRenderLogicIsInverted
    THEN Step([a1 EXCEPT !._ledTracker1 = a1._maxTracker],
              PreFill(a1, a1._maxTracker), s, FALSE)
    ELSE Step([a1 EXCEPT !._ledTracker1 = a1._minTracker],
              PreFill(a1, a1._minTracker), s, FALSE)

(* _fillOrEmpty, the block run when _init is set *)
FillOrEmptyInit(a, p, s) ==
    PreFillFrom(ResetLogicAtInit([a EXCEPT !._init = FALSE]), p, s)

(* _fillOrEmpty, the clamp applied when the rendering logic was switched *)
FillOrEmptyLogicSwitch(a) ==
    IF a._animRenderLogicIsInverted = a._prevAnimRenderLogic THEN a
    ELSE LET a1 == [a EXCEPT !._prevAnimRenderLogic = a._animRenderLogicIsInverted]
             a2 == IF a1._animRenderLogicIsInverted /\ a1._ledTracker1 > a1._maxTracker
                   THEN [a1 EXCEPT !._ledTracker1 = a1._maxTracker] ELSE a1
         IN  IF ~a2._animRenderLogicIsInverted /\ a2._ledTracker1 < a2._minTracker
             THEN [a2 EXCEPT !._ledTracker1 = a2._minTracker] ELSE a2

(* _fillOrEmpty, the interval-gated progress step *)
FillOrEmptyProgress(a, p, s) ==
    IF ~IntervalElapsed(a) THEN Step(a, p, s, FALSE)
    ELSE LET a1 == [a EXCEPT !._lastUpdate1 = a._currentTime]
         IN  IF a1._animRenderLogicIsInverted
             THEN IF a1._ledTracker1 >= a1._minTracker
                  THEN Step([a1 EXCEPT !._ledTracker1 = I8(a1._ledTracker1 - 1)],
                            SetPixel(p, a1._segsNum,
                                     CorrPixelToDir(a1, a1._ledTracker1), FALSE),
                            s, FALSE)
                  ELSE Step(a1, p, s, TRUE)
             ELSE IF a1._ledTracker1 <= a1._maxTracker /\ a1._ledTracker1 < a1._segsNum
                  THEN Step([a1 EXCEPT !._ledTracker1 = I8(a1._ledTracker1 + 1)],
                            SetPixel(p, a1._segsNum,
                                     CorrPixelToDir(a1, a1._ledTracker1), TRUE),
                            s, FALSE)
                  ELSE Step(a1, p, s, TRUE)

(* _fillOrEmpty *)
FillOrEmpty(a, p, s) ==
    IF a._init THEN FillOrEmptyInit(a, p, s)
    ELSE FillOrEmptyProgress(FillOrEmptyLogicSwitch(a), p, s)

(* _bounceFill, case 0: what follows the call of _fillOrEmpty *)
BounceAfterFill(r) ==
    IF r.done
    THEN Step([r.a EXCEPT
                 !._animRenderLogicIsInverted = ~r.a._AnimInitLogicIsInverted,
                 !._sequenceState = 1,
                 !._updateIntv1 = r.a._updateIntv3],
              r.p, r.s, FALSE)
    ELSE Step(r.a, r.p, r.s, FALSE)

(* A faulty end of phase 1: the fill interval is not restored. *)
BounceAfterEmptyKeepsInterval(r) ==
    IF r.done
    THEN Step([r.a EXCEPT
                 !._animRenderLogicIsInverted = r.a._AnimInitLogicIsInverted,
                 !._sequenceState = 0],
              r.p, r.s, TRUE)
    ELSE Step(r.a, r.p, r.s, FALSE)

(* _bounceFill, case 1: what follows the call of _fillOrEmpty *)
BounceAfterEmpty(r) ==
    IF r.done
    THEN Step([r.a EXCEPT
                 !._animRenderLogicIsInverted = r.a._AnimInitLogicIsInverted,
                 !._sequenceState = 0,
                 !._updateIntv1 = r.a._updateIntv2],
              r.p, r.s, TRUE)
    ELSE Step(r.a, r.p, r.s, FALSE)

(* _bounceFill *)
BounceFill(a, p, s) ==
    IF a._sequenceState = 0
    THEN BounceAfterFill(FillOrEmpty([a EXCEPT !._skipPending = FALSE], p, s))
    ELSE IF a._sequenceState = 1
    THEN BounceAfterEmpty(FillOrEmpty([a EXCEPT !._skipPending = TRUE], p, s))
    ELSE Step(a, p, s, TRUE)

-----------------------------------------------------------------------------
(* Block pool. _blocks is a sequence of Block records (slot i of the       *)
(* source is _blocks[i + 1]); NoBlocks is the null pointer. The aliases of *)
(* the source: blockLength = _param1, blockSpacing = _param2,              *)
(* requestedNumBlocks = _param3, maxBlocks = _param4, emitIndex = _param5, *)
(* emittedBlocksCount = _counter1, emitCooldown = _counter2.               *)

(* Block() : position(-1), active(false) *)
NewBlock == [position |-> -1, active |-> FALSE]

(* new Block[maxBlocks]{} *)
NewPool(maxBlocks) == [i \in 1 .. maxBlocks |-> NewBlock]

(* The slots the loops `for (i = 0; i < maxBlocks; ++i)` visit. *)
Slots(a) == 1 .. Min2(a._param4, Len(a._blocks))

AnyActive(a) == \E i \in Slots(a) : a._blocks[i].active

(* The slots _emitBlock probes, in probing order, that are free. *)
FreeProbes(a) ==
    { i \in 0 .. a._param4 - 1 : ~a._blocks[((a._param5 + i) % a._param4) + 1].active }

(* _emitBlock(pos) *)
EmitBlock(a, pos) ==
    IF a._blocks = NoBlocks \/ a._param4 < 1 THEN a
    ELSE IF a._counter2 > 0 THEN [a EXCEPT !._counter2 = a._counter2 - 1]
    ELSE IF a._param3 > 0 /\ a._counter1 >= a._param3 THEN a
    ELSE IF FreeProbes(a) = {} THEN a
    ELSE LET i == CHOOSE x \in FreeProbes(a) : \A y \in FreeProbes(a) : x <= y
             idx == (a._param5 + i) % a._param4
         IN  [a EXCEPT !._blocks[idx + 1] = [position |-> pos, active |-> TRUE],
                       !._counter1 = U8(a._counter1 + 1),
                       !._counter2 = U8(a._param1 + a._param2 - 1),
                       !._param5 = (a._param5 + 1) % a._param4]

(* A faulty re-projection: the range is not reduced by one.                *)
CalculateSwitchPositionNoOffset(pos, bockL, range) == I8(range - pos + (bockL - 1))

(* _calculateSwtichPostion(pos, bockL, range) *)
CalculateSwitchPosition(pos, bockL, range) == I8((range - 1) - pos + (bockL - 1))

(* The blocks after the loop of _calculateSwitchedEmitTickCounter. *)
SwitchedBlocks(a, range) ==
    [i \in 1 .. Len(a._blocks) |->
        LET b == a._blocks[i]
            swp == CalculateSwitchPosition(b.position, a._param1, range)
        IN  IF i \notin Slots(a) \/ ~b.active THEN b
            ELSE [position |-> swp, active |-> swp >= 0]]

(* _calculateSwitchedEmitTickCounter(range): the value returned. closestSwp *)
(* is the least switched position among the blocks still visible.          *)
CalculateSwitchedEmitTickCounter(a, range) ==
    LET emitInterval == I8(a._param1 + a._param2)
        visible == { swp \in 0 .. 127 :
                       \E i \in Slots(a) :
                          /\ a._blocks[i].active
                          /\ swp = CalculateSwitchPosition(a._blocks[i].position,
                                                          a._param1, range) }
    IN  IF visible # {}
        THEN I8((emitInterval - 1)
                - (CHOOSE x \in visible : \A y \in visible : x <= y))
        ELSE 0

(* The handling of a live logic switch in _mirrorBlocks / _scrollingBlocks. *)
BlocksLogicSwitch(a, range) ==
    IF a._prevAnimRenderLogic = a._animRenderLogicIsInverted THEN a
    ELSE [a EXCEPT !._counter2 = U8(CalculateSwitchedEmitTickCounter(a, range)),
                   !._blocks = SwitchedBlocks(a, range),
                   !._counter1 = a._param3,
                   !._prevAnimRenderLogic = a._animRenderLogicIsInverted]

(* The init block shared by _mirrorBlocks and _scrollingBlocks. *)
BlocksInit(a) ==
    LET a1 == ResetLogicAtInit([a EXCEPT !._init = FALSE,
                                         !._emittingBlocksEnabled = TRUE,
                                         !._counter1 = 0,
                                         !._counter2 = 0])
    IN  [a1 EXCEPT !._blocks = NewPool(a1._param4)]

(* _mirrorBlocks: the segments one block lights once its head is at        *)
(* `position` (both mirrored halves).                                      *)
MirrorLit(a, position) ==
    LET center == a._segsNum \div 2
        clamped == Max2(0, position + 1)
        pixelsVisible == Min2(a._param1, U8(clamped))
        pos == IF a._animRenderLogicIsInverted
               THEN I8(center - 1 - position) ELSE position
        tail(j) == IF a._animRenderLogicIsInverted THEN I8(pos + j) ELSE I8(pos - j)
        shown == { tail(j) : j \in 0 .. pixelsVisible - 1 } \cap (0 .. center - 1)
    IN  { idx \in shown : idx < a._segsNum }
        \cup ({ I8(a._segsNum - 1 - idx) : idx \in shown } \cap (0 .. a._segsNum - 1))

(* _mirrorBlocks: a block is emitted while the requested count is not      *)
(* reached (or is 0, continuous) and emission is enabled.                  *)
EmitIfDue(a1) ==
    IF (a1._param3 = 0 \/ a1._counter1 < a1._param3) /\ a1._emittingBlocksEnabled
    THEN EmitBlock(a1, -1) ELSE a1

(* _mirrorBlocks: every active block advances by one; a block whose head   *)
(* reached center - 1 + blockLength is deactivated.                        *)
MovedBlocks(a2) ==
    [i \in 1 .. Len(a2._blocks) |->
        IF i \notin Slots(a2) \/ ~a2._blocks[i].active THEN a2._blocks[i]
        ELSE [position |-> I8(a2._blocks[i].position + 1),
              active |-> ~(I8(a2._blocks[i].position + 1)
                             >= (a2._segsNum \div 2) - 1 + a2._param1)]]

(* _mirrorBlocks: the segments lit by the blocks that were active when the *)
(* step began, at their new positions.                                     *)
LitByBlocks(a2, moved) ==
    UNION { MirrorLit(a2, moved[i].position) :
               i \in { k \in Slots(a2) : a2._blocks[k].active } }

(* _mirrorBlocks: clear the bar, move the blocks, draw them. *)
MirrorRender(a2, moved) ==
    [a |-> [a2 EXCEPT !._blocks = moved],
     p |-> [k \in 0 .. a2._segsNum - 1 |-> k \in LitByBlocks(a2, moved)]]

(* _mirrorBlocks: what follows the emission within one step. *)
MirrorMoveAndRender(a2) == MirrorRender(a2, MovedBlocks(a2))

(* _mirrorBlocks: the interval-gated step (clear, emit, move, render). *)
MirrorBlocksProgress(a, p) ==
    IF ~IntervalElapsed(a) THEN [a |-> a, p |-> p]
    ELSE MirrorMoveAndRender(EmitIfDue([a EXCEPT !._lastUpdate1 = a._currentTime]))

(* The completion test of _mirrorBlocks / _scrollingBlocks. *)
BlocksComplete(a) ==
    /\ (a._param3 > 0 /\ a._counter1 >= a._param3) \/ ~a._emittingBlocksEnabled
    /\ ~AnyActive(a)

(* A step of a block algorithm reads or writes a slot of the pool: after a *)
(* logic switch, on an elapsed interval, and in the completion test.       *)
TouchesPool(a) ==
    \/ a._prevAnimRenderLogic # a._animRenderLogicIsInverted
    \/ IntervalElapsed(a)
    \/ (a._param3 > 0 /\ a._counter1 >= a._param3)
    \/ ~a._emittingBlocksEnabled

(* _mirrorBlocks: the value returned after the step. *)
BlocksResult(r, s) == Step(r.a, r.p, s, BlocksComplete(r.a))

(* _mirrorBlocks. A step that indexes slots 0 .. maxBlocks-1 of a pool     *)
(* that is null or shorter is undefined behaviour: it is recorded in       *)
(* poolFault and its result is whatever `wild` says.                       *)
MirrorBlocks(a, p, s, wild) ==
    IF a._init THEN Step(BlocksInit(a), p, s, FALSE)
    ELSE IF TouchesPool(a) /\ Len(a._blocks) < a._param4
    THEN Step([a EXCEPT !.poolFault = TRUE], p, s, wild)
    ELSE BlocksResult(MirrorBlocksProgress(BlocksLogicSwitch(a, a._segsNum \div 2), p), s)

(* _scrollingBlocks: the segments one block lights once its head is at     *)
(* `position`, after the direction correction of _corrPixelToDir.          *)
ScrollLit(a, position) ==
    LET pos == IF a._animRenderLogicIsInverted
               THEN I8((a._segsNum - 1) - position) ELSE position
        tail(j) == IF a._animRenderLogicIsInverted THEN I8(pos + j) ELSE I8(pos - j)
        shown == { tail(j) : j \in 0 .. a._param1 - 1 } \cap (0 .. a._segsNum - 1)
    IN  { CorrPixelToDir(a, idx) : idx \in shown }

(* _scrollingBlocks: every active block advances by one; a block whose     *)
(* head reached (_segsNum - 1) + blockLength is deactivated.               *)
ScrolledBlocks(a2) ==
    [i \in 1 .. Len(a2._blocks) |->
        IF i \notin Slots(a2) \/ ~a2._blocks[i].active THEN a2._blocks[i]
        ELSE [position |-> I8(a2._blocks[i].position + 1),
              active |-> ~(I8(a2._blocks[i].position + 1)
                             >= (a2._segsNum - 1) + a2._param1)]]

(* _scrollingBlocks: clear the bar, move the blocks, draw the blocks that  *)
(* were active when the step began at their new positions.                 *)
ScrollRender(a2, moved) ==
    [a |-> [a2 EXCEPT !._blocks = moved],
     p |-> [k \in 0 .. a2._segsNum - 1 |->
              \E i \in Slots(a2) :
                 a2._blocks[i].active /\ k \in ScrollLit(a2, moved[i].position)]]

(* _scrollingBlocks: the interval-gated step (clear, emit, move, render). *)
ScrollingBlocksProgress(a, p) ==
    IF ~IntervalElapsed(a) THEN [a |-> a, p |-> p]
    ELSE LET a2 == EmitIfDue([a EXCEPT !._lastUpdate1 = a._currentTime])
         IN  ScrollRender(a2, ScrolledBlocks(a2))

(* _scrollingBlocks, with the same treatment of a null or short pool as    *)
(* MirrorBlocks.                                                           *)
ScrollingBlocks(a, p, s, wild) ==
    IF a._init THEN Step(BlocksInit(a), p, s, FALSE)
    ELSE IF TouchesPool(a) /\ Len(a._blocks) < a._param4
    THEN Step([a EXCEPT !.poolFault = TRUE], p, s, wild)
    ELSE BlocksResult(ScrollingBlocksProgress(BlocksLogicSwitch(a, a._segsNum), p), s)

-----------------------------------------------------------------------------
(* _randomPixelUpdater. `static uint8_t *pixelOrder` is one variable for   *)
(* every engine of the same template instantiation: shared.pixelOrder.     *)
(* owner is the engine whose init allocated the buffer (0: none); foreign  *)
(* records that an engine read or freed a buffer it had not allocated.     *)

NullOrder == [null |-> TRUE, arr |-> << >>, owner |-> 0]

(* pixelOrder[cursor]; a read through the null pointer or past the end of  *)
(* the allocation yields an arbitrary byte, `wild`.                        *)
ReadOrder(s, cursor, wild) ==
    IF ~s.pixelOrder.null /\ cursor >= 0 /\ cursor < Len(s.pixelOrder.arr)
    THEN s.pixelOrder.arr[cursor + 1] ELSE wild

(* The while loop of _randomPixelUpdater: <<cursor, pixels>> after it. *)
RECURSIVE RandomLoop(_, _, _, _, _, _)
RandomLoop(a, p, s, cursor, retries, wild) ==
    IF ~(cursor < a._segsNum /\ retries < a._segsNum - 1) THEN <<cursor, p>>
    ELSE LET seg == ReadOrder(s, cursor, wild)
             currentState == GetPixelState(p, a._segsNum, seg)
             shouldChange == \/ ~a._AnimInitLogicIsInverted /\ ~currentState
                             \/ a._AnimInitLogicIsInverted /\ currentState
         IN  IF shouldChange
             THEN <<I8(cursor + 1),
                    SetPixel(p, a._segsNum, seg, ~a._AnimInitLogicIsInverted)>>
             ELSE RandomLoop(a, p, s, I8(cursor + 1), retries + 1, wild)

(* _randomPixelUpdater, init block after the logic reset: blank the bar,   *)
(* free and reallocate pixelOrder; perm is the outcome of the shuffle.     *)
RandomInitFrom(a1, s, e, perm) ==
    Step([a1 EXCEPT !._ledTracker1 = 0, !._lastUpdate1 = a1._currentTime],
         IF a1._animRenderLogicIsInverted THEN AllOn(a1._segsNum)
         ELSE Clear(a1._segsNum),
         [s EXCEPT !.pixelOrder = [null |-> FALSE, arr |-> perm, owner |-> e],
                   !.foreign = s.foreign
                               \/ (~s.pixelOrder.null /\ s.pixelOrder.owner # e)],
         FALSE)

(* _randomPixelUpdater, the block run when _init is set *)
RandomInit(a, p, s, e, perm) ==
    RandomInitFrom(ResetLogicAtInit([a EXCEPT !._init = FALSE]), s, e, perm)

(* _randomPixelUpdater, the completion test after the loop left           *)
(* r = <<cursor, pixels>>; reads says the loop read pixelOrder.            *)
RandomAfterLoop(a1, s, e, r, reads) ==
    IF r[1] >= a1._segsNum
    THEN Step([a1 EXCEPT !._ledTracker1 = r[1]], r[2],
              [s EXCEPT !.pixelOrder = NullOrder,
                        !.foreign = s.foreign \/ s.pixelOrder.owner # e],
              TRUE)
    ELSE Step([a1 EXCEPT !._ledTracker1 = r[1]], r[2],
              [s EXCEPT !.foreign = s.foreign \/ (reads /\ s.pixelOrder.owner # e)],
              FALSE)

(* _randomPixelUpdater, the interval-gated step and the completion test *)
RandomProgress(a, p, s, e, wild) ==
    IF IntervalElapsed(a)
    THEN RandomAfterLoop([a EXCEPT !._lastUpdate1 = a._currentTime], s, e,
                         RandomLoop(a, p, s, a._ledTracker1, 0, wild),
                         a._ledTracker1 < a._segsNum /\ 0 < a._segsNum - 1)
    ELSE RandomAfterLoop(a, s, e, <<a._ledTracker1, p>>, FALSE)

RandomPixelUpdater(a, p, s, e, rnd) ==
    IF a._init THEN RandomInit(a, p, s, e, rnd.perm)
    ELSE RandomProgress(a, p, s, e, rnd.wild)

-----------------------------------------------------------------------------
(* The signal followers. rnd.sig1 and rnd.sig2 are the values the two      *)
(* signal variables of the program hold during this update(); rnd.wild16   *)
(* is what a read through a null pointer yields on a build where it does   *)
(* not trap. nullDeref records that a null pointer was dereferenced.       *)

(* *ptr *)
Deref(ptr, rnd) ==
    IF ptr = nullptr THEN rnd.wild16 ELSE IF ptr = "sig1" THEN rnd.sig1 ELSE rnd.sig2

(* (raw * smoothingFactor + smoothed * (100 - smoothingFactor)) / 100 in   *)
(* unsigned 16-bit arithmetic (int of 16 bits); with an int of 32 bits the *)
(* sum does not wrap.                                                      *)
Smoothed(raw, smoothed, factor) == U16(raw * factor + smoothed * (100 - factor)) \div 100

(* The same with the operands cast to uint32_t and the result to uint16_t. *)
Smoothed32(raw, smoothed, factor) == U16((factor * raw + (100 - factor) * smoothed) \div 100)

(* The init block of the one-signal followers. *)
FollowInit(a, rnd) ==
    LET a1 == ResetLogicAtInit([a EXCEPT !._init = FALSE])
    IN  [a1 EXCEPT !._smoothedValue1 = Deref(a._sigPtr1, rnd),
                   !._lastUpdate1 = a._currentTime,
                   !.nullDeref = a.nullDeref \/ a._sigPtr1 = nullptr]

(* The signal sampling block of _followSignalSmooth and                    *)
(* _followSignalWithPointer.                                               *)
FollowSample(a, rnd) ==
    IF a._currentTime - a._lastUpdate2 >= a._updateIntv2
    THEN [a EXCEPT !._smoothedValue1 =
                       Smoothed(Deref(a._sigPtr1, rnd), a._smoothedValue1, a._param1),
                   !._lastUpdate2 = a._currentTime,
                   !.nullDeref = a.nullDeref \/ a._sigPtr1 = nullptr]
    ELSE a

(* setPixel(_corrPixelToDir(i), i < level) for every i *)
BarUpTo(a, level) ==
    [k \in 0 .. a._segsNum - 1 |->
        \E i \in 0 .. a._segsNum - 1 : CorrPixelToDir(a, i) = k /\ i < level]

(* _followSignalSmooth *)
FollowSignalSmooth(a, p, s, rnd) ==
    IF a._sigPtr1 = nullptr THEN Step(a, Clear(a._segsNum), s, TRUE)
    ELSE IF a._init THEN Step(FollowInit(a, rnd), Clear(a._segsNum), s, FALSE)
    ELSE LET a1 == FollowSample(a, rnd)
         IN  IF ~IntervalElapsed(a1) THEN Step(a1, p, s, FALSE)
             ELSE Step([a1 EXCEPT !._lastUpdate1 = a1._currentTime],
                       BarUpTo(a1, GetMappedSignal(a1._smoothedValue1, a1._minMap,
                                                   a1._maxMap, 0, a1._segsNum)),
                       s, FALSE)

(* _followSignalWithPointer: the pixels drawn on an elapsed interval. *)
PointerBar(a, avg, pointer) ==
    LET n == a._segsNum
        p1 == BarUpTo(a, avg)
        p2 == IF pointer < avg /\ pointer > 0
              THEN SetPixel(p1, n, CorrPixelToDir(a, pointer - 1), FALSE) ELSE p1
        p3 == IF pointer < avg - 2
              THEN SetPixel(p2, n, CorrPixelToDir(a, pointer + 1), FALSE) ELSE p2
    IN  SetPixel(p3, n, CorrPixelToDir(a, pointer), TRUE)

(* _followSignalWithPointer *)
FollowSignalWithPointer(a, p, s, rnd) ==
    IF a._sigPtr1 = nullptr THEN Step(a, Clear(a._segsNum), s, TRUE)
    ELSE IF a._init THEN Step(FollowInit(a, rnd), Clear(a._segsNum), s, FALSE)
    ELSE LET a1 == FollowSample(a, rnd)
         IN  IF ~IntervalElapsed(a1) THEN Step(a1, p, s, FALSE)
             ELSE Step([a1 EXCEPT !._lastUpdate1 = a1._currentTime],
                       PointerBar(a1,
                           GetMappedSignal(a1._smoothedValue1, a1._minMap, a1._maxMap,
                                           0, a1._segsNum),
                           GetMappedSignal(Deref(a1._sigPtr1, rnd), a1._minMap,
                                           a1._maxMap, 0, a1._segsNum)),
                       s, FALSE)

(* _followDualSignalCenterMirror, init block: *_sigPtr1 is read whether or *)
(* not _sigPtr1 is null.                                                   *)
DualInit(a, rnd) ==
    LET a1 == ResetLogicAtInit([a EXCEPT !._init = FALSE])
        a2 == IF a._animLogicSet THEN a1
              ELSE [a1 EXCEPT !._mirrorHalfRangeDir = a._AnimInitLogicIsInverted]
    IN  [a2 EXCEPT !._smoothedValue1 = Deref(a._sigPtr1, rnd),
                   !._smoothedValue2 = IF a._sigPtr2 # nullptr
                                       THEN Deref(a._sigPtr2, rnd)
                                       ELSE a._smoothedValue2,
                   !._lastUpdate1 = a._currentTime,
                   !.nullDeref = a.nullDeref \/ a._sigPtr1 = nullptr]

(* _followDualSignalCenterMirror, one smoothing of both signals. *)
DualSmooth(a, rnd) ==
    [a EXCEPT !._smoothedValue1 =
                  Smoothed32(Deref(a._sigPtr1, rnd), a._smoothedValue1, a._param1),
              !._smoothedValue2 =
                  IF a._sigPtr2 # nullptr
                  THEN Smoothed32(Deref(a._sigPtr2, rnd), a._smoothedValue2, a._param1)
                  ELSE a._smoothedValue2,
              !.nullDeref = a.nullDeref \/ a._sigPtr1 = nullptr]

(* _followDualSignalCenterMirror, the pixels drawn on an elapsed interval. *)
DualBar(a, level1, level2) ==
    LET half == a._segsNum \div 2
    IN  [i \in 0 .. a._segsNum - 1 |->
            IF a._animRenderLogicIsInverted
            THEN i < (half - 1) - level1 \/ i > half + level2
            ELSE i >= (half - 1) - level1 /\ i <= half + level2]

(* _followDualSignalCenterMirror, after the init block. On an elapsed      *)
(* interval only _smoothedValue1 is smoothed once more.                    *)
DualProgress(a, p, s, rnd) ==
    LET a1 == [a EXCEPT !._prevAnimRenderLogic = a._animRenderLogicIsInverted]
        a2 == IF a1._currentTime - a1._lastUpdate2 >= a1._updateIntv2
              THEN DualSmooth([a1 EXCEPT !._lastUpdate2 = a1._currentTime], rnd)
              ELSE a1
        a3 == [a2 EXCEPT !._lastUpdate1 = a2._currentTime,
                         !._smoothedValue1 = Smoothed32(Deref(a2._sigPtr1, rnd),
                                                        a2._smoothedValue1, a2._param1),
                         !.nullDeref = a2.nullDeref \/ a2._sigPtr1 = nullptr]
        level1 == GetMappedSignal(a3._smoothedValue1, a3._minMap, a3._maxMap,
                                  0, a3._segsNum \div 2)
        level2 == IF a3._sigPtr2 # nullptr
                  THEN GetMappedSignal(a3._smoothedValue2, a3._minMap, a3._maxMap,
                                       0, a3._segsNum \div 2)
                  ELSE level1
    IN  IF ~IntervalElapsed(a2) THEN Step(a2, p, s, FALSE)
        ELSE Step(a3, DualBar(a3, level1, level2), s, FALSE)

(* _followDualSignalCenterMirror *)
FollowDualSignalCenterMirror(a, p, s, rnd) ==
    IF a._sigPtr1 = nullptr /\ a._sigPtr2 = nullptr
    THEN Step(a, Clear(a._segsNum), s, TRUE)
    ELSE IF a._init THEN Step(DualInit(a, rnd), Clear(a._segsNum), s, FALSE)
    ELSE DualProgress(a, p, s, rnd)

(* _followSignalFloatingPeak: the smoothing block (currentLevel is         *)
(* _ledTracker1).                                                          *)
PeakSample(a, rnd) ==
    IF a._currentTime - a._lastUpdate2 >= a._updateIntv2
    THEN LET sm == Smoothed(Deref(a._sigPtr1, rnd), a._smoothedValue1, a._param1)
         IN  [a EXCEPT !._lastUpdate2 = a._currentTime,
                       !._smoothedValue1 = sm,
                       !._ledTracker1 = I8(GetMappedSignal(sm, a._minMap, a._maxMap,
                                                           0, a._segsNum)),
                       !.nullDeref = a.nullDeref \/ a._sigPtr1 = nullptr]
    ELSE a

(* _followSignalFloatingPeak: the peak logic (peakLevel is _ledTracker3,   *)
(* peakHoldTime _updateIntv3, lastPeakUpdate _lastUpdate3).                *)
PeakLogic(a) ==
    IF a._ledTracker1 > a._ledTracker3
    THEN [a EXCEPT !._ledTracker3 = I8(Min2(a._ledTracker1, a._segsNum - 1)),
                   !._lastUpdate3 = a._currentTime]
    ELSE IF a._currentTime - a._lastUpdate3 >= a._updateIntv3
            /\ a._ledTracker3 > a._ledTracker1
    THEN [a EXCEPT !._ledTracker3 = I8(a._ledTracker3 - 1),
                   !._lastUpdate3 = a._currentTime]
    ELSE a

(* _followSignalFloatingPeak *)
FollowSignalFloatingPeak(a, p, s, rnd) ==
    IF a._sigPtr1 = nullptr THEN Step(a, Clear(a._segsNum), s, TRUE)
    ELSE IF a._init
    THEN Step([FollowInit(a, rnd) EXCEPT !._lastUpdate3 = a._currentTime,
                                         !._ledTracker1 = 0,
                                         !._ledTracker3 = 0],
              Clear(a._segsNum), s, FALSE)
    ELSE LET a1 == PeakSample(a, rnd)
             a2 == PeakLogic([a1 EXCEPT !._lastUpdate1 = a1._currentTime])
         IN  IF ~IntervalElapsed(a1) THEN Step(a1, p, s, FALSE)
             ELSE Step(a2,
                       IF a2._ledTracker3 < a2._segsNum
                       THEN SetPixel(BarUpTo(a2, a2._ledTracker1 + 1), a2._segsNum,
                                     CorrPixelToDir(a2, a2._ledTracker3), TRUE)
                       ELSE BarUpTo(a2, a2._ledTracker1 + 1),
                       s, FALSE)

-----------------------------------------------------------------------------
(* _beatPulse. The aliases of the source: bpm = _param1, MIN_BASE_LEVEL =  *)
(* _param2, MIN_PEAK_LEVEL = _param3, PEAK_HOLD_TIME = _param4, bpmPtr =   *)
(* _sigPtr1, currentLevel = _ledTracker1, peakLevel = _ledTracker2, beat = *)
(* _updateIntv1, lastBeat = _lastUpdate1, lastRandomUpdate = _lastUpdate2, *)
(* prevPeakUpdate = _lastUpdate3; randomOffset and isPeak are statics of   *)
(* the function. rnd holds what random() and the read through bpmPtr give: *)
(* rise = random(3, 5), fall = random(0, 4), gate = random(50, 300),       *)
(* offset = random(-4, 4), bpm = *bpmPtr, and wild16 the quotient of a     *)
(* division by zero.                                                       *)

(* The init block. *)
BeatInit(a) ==
    IF a._init
    THEN [ResetLogicAtInit([a EXCEPT !._init = FALSE]) EXCEPT
             !._ledTracker1 = I8(a._param2),
             !._ledTracker2 = I8(a._param3)]
    ELSE a

(* bpm = bpmPtr ? max(1, *bpmPtr) : 116, stored in a uint8_t; *bpmPtr is   *)
(* read as a uint16_t.                                                     *)
BeatBpm(a, rnd) ==
    IF ~a._usePtr THEN a._param1
    ELSE IF a._sigPtr1 # nullptr THEN U8(Max2(1, rnd.bpm)) ELSE 116

(* beat = 60000 / bpm *)
BeatTempo(a, rnd) ==
    [a EXCEPT !._param1 = BeatBpm(a, rnd),
              !._updateIntv1 = IF BeatBpm(a, rnd) = 0 THEN rnd.wild16
                               ELSE U16(60000 \div BeatBpm(a, rnd)),
              !.divByZero = a.divByZero \/ BeatBpm(a, rnd) = 0]

(* The beat toggle and the move of currentLevel towards peak or base. *)
BeatLevel(a, isPeak, rnd) ==
    IF isPeak /\ a._ledTracker1 <= a._param3
    THEN [a EXCEPT !._ledTracker1 = I8(a._ledTracker1 + rnd.rise)]
    ELSE IF ~isPeak /\ a._ledTracker1 >= a._param2
    THEN [a EXCEPT !._ledTracker1 = I8(a._ledTracker1 - rnd.fall)]
    ELSE a

BeatToggle(a, s, rnd) ==
    IF IntervalElapsed(a)
    THEN [a |-> BeatLevel([a EXCEPT !._lastUpdate1 = a._currentTime], ~s.isPeak, rnd),
          s |-> [s EXCEPT !.isPeak = ~s.isPeak]]
    ELSE [a |-> BeatLevel(a, s.isPeak, rnd), s |-> s]

(* The random offset, redrawn at a random interval. *)
BeatOffset(r, rnd) ==
    IF r.a._currentTime - r.a._lastUpdate2 >= rnd.gate
    THEN [a |-> [r.a EXCEPT !._lastUpdate2 = r.a._currentTime],
          s |-> [r.s EXCEPT !.randomOffset = rnd.offset]]
    ELSE r

(* finalLevel, a uint8_t held to 0 .. _segsNum *)
BeatFinalLevel(r) ==
    Constrain(U8(r.a._ledTracker1 + r.s.randomOffset), 0, r.a._segsNum)

(* The peak level: raised at once, dropped by one after the hold time. *)
BeatPeak(a, finalLevel) ==
    IF finalLevel > a._ledTracker2
    THEN [a EXCEPT !._ledTracker2 = I8(Min2(finalLevel, a._segsNum - 1)),
                   !._lastUpdate3 = a._currentTime]
    ELSE IF a._currentTime - a._lastUpdate3 >= a._param4 /\ a._ledTracker2 > finalLevel
    THEN [a EXCEPT !._ledTracker2 = I8(a._ledTracker2 - 1),
                   !._lastUpdate3 = a._currentTime]
    ELSE a

(* The bar up to finalLevel and the peak LED. *)
BeatRender(a, finalLevel) ==
    IF a._ledTracker2 < a._segsNum
    THEN SetPixel(BarUpTo(a, finalLevel), a._segsNum,
                  CorrPixelToDir(a, a._ledTracker2), TRUE)
    ELSE BarUpTo(a, finalLevel)

BeatDraw(r) ==
    Step(BeatPeak(r.a, BeatFinalLevel(r)),
         BeatRender(BeatPeak(r.a, BeatFinalLevel(r)), BeatFinalLevel(r)),
         r.s, FALSE)

(* A beat pulse that ends with the beat: it reports completion on the      *)
(* update that starts a new beat.                                          *)
BeatPulseOneBeat(a, p, s, rnd) ==
    [BeatDraw(BeatOffset(BeatToggle(BeatTempo(BeatInit(a), rnd), s, rnd), rnd))
       EXCEPT !.done = IntervalElapsed(BeatTempo(BeatInit(a), rnd))]

(* _beatPulse *)
BeatPulse(a, p, s, rnd) ==
    BeatDraw(BeatOffset(BeatToggle(BeatTempo(BeatInit(a), rnd), s, rnd), rnd))

-----------------------------------------------------------------------------
(* _stackingBlocks. The aliases of the source: stackLevel = _ledTracker1,  *)
(* and the block aliases of _mirrorBlocks. The pool holds one block.       *)

(* blockInterval *)
StackInterval(a) == U8(a._param1 + a._param2)

(* The setup pass of the unstacking logic: stackLevel is raised by         *)
(* blockInterval until it is no longer below the segment count.            *)
RECURSIVE StackFillLevel(_, _)
StackFillLevel(a, level) ==
    IF level < a._segsNum THEN StackFillLevel(a, I8(level + StackInterval(a)))
    ELSE level

(* The stack pattern drawn over segments 0 .. count - 1: blockLength lit,  *)
(* blockSpacing dark, each through _corrPixelToDir; an index the bar does  *)
(* not have is dropped by setPixel.                                        *)
StackPattern(a, p, count) ==
    [k \in DOMAIN p |->
        LET hits == { i \in 0 .. count - 1 : CorrPixelToDir(a, i) = k }
        IN  IF hits = {} THEN p[k]
            ELSE (CHOOSE x \in hits : \A y \in hits : y <= x) % StackInterval(a)
                    < a._param1]

(* The segments position .. position + blockLength - 1 that are on the bar *)
(* get state v.                                                            *)
StackDrawBlock(a, p, position, v) ==
    [k \in DOMAIN p |->
        IF \E j \in 0 .. a._param1 - 1 :
              /\ I8(position + j) >= 0
              /\ I8(position + j) < a._segsNum
              /\ CorrPixelToDir(a, I8(position + j)) = k
        THEN v ELSE p[k]]

(* The init block of _stackingBlocks. *)
StackingInit(a, p) ==
    LET a1 == ResetLogicAtInit([a EXCEPT !._init = FALSE])
        a2 == [a1 EXCEPT !._param4 = 1,
                         !._blocks = NewPool(1),
                         !._param5 = 0,
                         !._counter2 = 0,
                         !._ledTracker1 = IF a1._animRenderLogicIsInverted
                                          THEN StackFillLevel(a1, 0) ELSE 0]
    IN  [a |-> a2,
         p |-> IF a2._animRenderLogicIsInverted
               THEN StackPattern(a2, p, a2._ledTracker1)
               ELSE Clear(a2._segsNum)]

(* The handling of a live logic switch in _stackingBlocks. *)
StackingLogicSwitch(a) ==
    IF a._animRenderLogicIsInverted = a._prevAnimRenderLogic THEN a
    ELSE [a EXCEPT !._prevAnimRenderLogic = a._animRenderLogicIsInverted,
                   !._ledTracker1 = IF a._animRenderLogicIsInverted
                                    THEN I8(a._ledTracker1 + StackInterval(a))
                                    ELSE I8(a._ledTracker1 - StackInterval(a))]

(* _stackingBlocks: "Emit one block if none active". The test reads the    *)
(* stack level and the logic only.                                         *)
StackEmit(a1) ==
    IF a1._blocks[1].active THEN a1
    ELSE LET a1c == [a1 EXCEPT !._counter2 = 0]
         IN  IF ~a1c._animRenderLogicIsInverted /\ a1c._ledTracker1 <= a1c._segsNum
             THEN EmitBlock(a1c, I8(a1c._segsNum))
             ELSE IF a1c._animRenderLogicIsInverted /\ a1c._ledTracker1 >= 0
             THEN EmitBlock(a1c, I8(a1c._ledTracker1 - StackInterval(a1c)))
             ELSE a1c

(* _stackingBlocks: "Update and draw all active blocks". *)
StackMove(a2, p1) ==
    LET b == a2._blocks[1]
        inv == a2._animRenderLogicIsInverted
        newPos == IF inv THEN I8(b.position + 1) ELSE I8(b.position - 1)
        cleared == IF b.position >= 0 /\ b.position < a2._segsNum
                   THEN [p1 EXCEPT ![CorrPixelToDir(a2, b.position)] = FALSE]
                   ELSE p1
        landed == IF inv THEN newPos >= a2._segsNum ELSE newPos <= a2._ledTracker1
        level == IF ~landed THEN a2._ledTracker1
                 ELSE IF inv THEN I8(a2._ledTracker1 - StackInterval(a2))
                 ELSE I8(a2._ledTracker1 + StackInterval(a2))
    IN  IF ~b.active THEN [a |-> a2, p |-> p1]
        ELSE [a |-> [a2 EXCEPT !._blocks[1] = [position |-> newPos, active |-> ~landed],
                               !._ledTracker1 = level],
              p |-> StackDrawBlock(a2, cleared, newPos, TRUE)]

(* _stackingBlocks: "Draw base for stacking". *)
StackBase(r) ==
    LET p4 == IF r.a._ledTracker1 = 0
              THEN [r.p EXCEPT ![CorrPixelToDir(r.a, 0)] = FALSE] ELSE r.p
    IN  [a |-> r.a, p |-> StackPattern(r.a, p4, r.a._ledTracker1 - StackInterval(r.a))]

(* _stackingBlocks: the completion test at the end of the interval step;   *)
(* hasActive is the value found before the emission.                       *)
StackComplete(a3, hasActive) ==
    IF a3._animRenderLogicIsInverted
    THEN a3._ledTracker1 <= 0 /\ ~hasActive
    ELSE a3._ledTracker1 >= a3._segsNum - 1 /\ ~hasActive

(* _stackingBlocks: the interval step. *)
StackingProgress(a, p, s) ==
    LET a1 == [a EXCEPT !._lastUpdate1 = a._currentTime]
        hasActive == a1._blocks[1].active
        p1 == IF hasActive THEN StackDrawBlock(a1, p, a1._blocks[1].position, FALSE)
              ELSE p
        r == StackBase(StackMove(StackEmit(a1), p1))
    IN  Step(r.a, r.p, s, StackComplete(r.a, hasActive))

(* _stackingBlocks. An interval step on a pool that was never allocated    *)
(* reads through a null pointer: recorded in poolFault, result `wild`.     *)
StackingBlocks(a, p, s, wild) ==
    IF a._init THEN Step(StackingInit(a, p).a, StackingInit(a, p).p, s, FALSE)
    ELSE LET a0 == StackingLogicSwitch(a)
         IN  IF ~IntervalElapsed(a0) THEN Step(a0, p, s, FALSE)
             ELSE IF Len(a0._blocks) < 1
             THEN Step([a0 EXCEPT !.poolFault = TRUE], p, s, wild)
             ELSE StackingProgress(a0, p, s)

(* _corrPixelToDirForHalfRange(pixel): the parameter is a uint8_t. *)
CorrPixelToDirForHalfRange(a, pixel) ==
    IF ~a._mirrorHalfRangeDir THEN U8(pixel)
    ELSE LET d == ((a._segsNum \div 2) - 1) - U8(pixel)
         IN  U8(IF d < 0 THEN -d ELSE d)

(* The two setPixel calls of one half-range position. *)
SetMirroredPixel(a, p, i, state) ==
    LET c == CorrPixelToDirForHalfRange(a, i)
    IN  SetPixel(SetPixel(p, a._segsNum, c, state),
                 a._segsNum, U8((a._segsNum - 1) - c), state)

RECURSIVE HalfRangePreFill(_, _, _, _)
(* _fillFromOrEmptyToCenter, the setup loops over i < center, from i on:   *)
(* inverted logic lights i >= _maxTracker, normal logic i > _minTracker.   *)
HalfRangePreFill(a, p, i, center) ==
    IF i >= center THEN p
    ELSE HalfRangePreFill(a,
             SetMirroredPixel(a, p, i,
                 IF a._animRenderLogicIsInverted THEN i >= a._maxTracker
                 ELSE i > a._minTracker),
             i + 1, center)

(* _fillFromOrEmptyToCenter, init block.  The starters modelled clear      *)
(* _usePtr, so _mapMinMaxTrackerFromPtr returns at once.                   *)
FillFromOrEmptyToCenterInit(a, p, s) ==
    LET a1 == ResetLogicAtInit([a EXCEPT !._init = FALSE])
    IN  Step([a1 EXCEPT !._ledTracker1 = IF a1._animRenderLogicIsInverted
                                         THEN a1._maxTracker ELSE a1._minTracker],
             HalfRangePreFill(a1, p, 0, a1._segsNum \div 2), s, FALSE)

(* _fillFromOrEmptyToCenter, interval step *)
FillFromOrEmptyToCenterProgress(a, p, s) ==
    IF ~IntervalElapsed(a) THEN Step(a, p, s, FALSE)
    ELSE LET a1 == [a EXCEPT !._lastUpdate1 = a._currentTime]
         IN  IF ~a1._animRenderLogicIsInverted
             THEN IF a1._ledTracker1 >= a1._maxTracker /\ a1._ledTracker1 >= 0
                  THEN Step([a1 EXCEPT !._ledTracker1 = I8(a1._ledTracker1 - 1)],
                            SetMirroredPixel(a1, p, a1._ledTracker1, TRUE), s, FALSE)
                  ELSE Step(a1, p, s, TRUE)
             ELSE IF /\ a1._ledTracker1 <= a1._minTracker
                     /\ a1._ledTracker1 < a1._segsNum \div 2
                  THEN Step([a1 EXCEPT !._ledTracker1 = I8(a1._ledTracker1 + 1)],
                            SetMirroredPixel(a1, p, a1._ledTracker1, FALSE), s, FALSE)
                  ELSE Step(a1, p, s, TRUE)

(* _fillFromOrEmptyToCenter *)
FillFromOrEmptyToCenter(a, p, s) ==
    IF a._init THEN FillFromOrEmptyToCenterInit(a, p, s)
    ELSE FillFromOrEmptyToCenterProgress(a, p, s)

(* _bounceFillHalfRangeMirrorCenter *)
BounceFillHalfRangeMirrorCenter(a, p, s) ==
    IF a._sequenceState = 0
    THEN BounceAfterFill(FillFromOrEmptyToCenter([a EXCEPT !._skipPending = TRUE], p, s))
    ELSE IF a._sequenceState = 1
    THEN BounceAfterEmpty(FillFromOrEmptyToCenter([a EXCEPT !._skipPending = FALSE], p, s))
    ELSE Step(a, p, s, TRUE)

-----------------------------------------------------------------------------
(* update() and the control functions.                                     *)

(* (this->*_currentFunc)() *)
RunCurrentFunc(a, p, s, e, rnd) ==
    CASE a._currentFunc = "_setAllOn" -> SetAllOnStep(a, p, s)
      [] a._currentFunc = "_setAllOff" -> SetAllOffStep(a, p, s)
      [] a._currentFunc = "_fillOrEmpty" -> FillOrEmpty(a, p, s)
      [] a._currentFunc = "_bounceFill" -> BounceFill(a, p, s)
      [] a._currentFunc = "_bounceFillHalfRangeMirrorCenter" ->
             BounceFillHalfRangeMirrorCenter(a, p, s)
      [] a._currentFunc = "_mirrorBlocks" -> MirrorBlocks(a, p, s, rnd.wildDone)
      [] a._currentFunc = "_scrollingBlocks" -> ScrollingBlocks(a, p, s, rnd.wildDone)
      [] a._currentFunc = "_stackingBlocks" -> StackingBlocks(a, p, s, rnd.wildDone)
      [] a._currentFunc = "_randomPixelUpdater" -> RandomPixelUpdater(a, p, s, e, rnd)
      [] a._currentFunc = "_beatPulse" -> BeatPulse(a, p, s, rnd)
      [] a._currentFunc = "_followSignalSmooth" -> FollowSignalSmooth(a, p, s, rnd)
      [] a._currentFunc = "_followSignalWithPointer" ->
             FollowSignalWithPointer(a, p, s, rnd)
      [] a._currentFunc = "_followDualSignalCenterMirror" ->
             FollowDualSignalCenterMirror(a, p, s, rnd)
      [] a._currentFunc = "_followSignalFloatingPeak" ->
             FollowSignalFloatingPeak(a, p, s, rnd)

(* A faulty completion: the no-loop branch forgets to clear _currentFunc.   *)
OnCompleteKeepsFunc(a) ==
    IF a._loop
    THEN IF a._skipPending THEN [a EXCEPT !._isLoopingNow = FALSE]
         ELSE [a EXCEPT !._isLoopingNow = TRUE, !._init = TRUE]
    ELSE [a EXCEPT !._isLoopingNow = FALSE, !._isRunning = FALSE]

(* A faulty completion: the loop branch marks just-looped but forgets to   *)
(* re-arm _init.                                                           *)
OnCompleteNoRearm(a) ==
    IF a._loop
    THEN IF a._skipPending THEN [a EXCEPT !._isLoopingNow = FALSE]
         ELSE [a EXCEPT !._isLoopingNow = TRUE]
    ELSE [a EXCEPT !._isLoopingNow = FALSE,
                   !._isRunning = FALSE,
                   !._currentFunc = nullptr]

(* update(): what is done once the step function returned true *)
OnComplete(a) ==
    IF a._loop
    THEN IF a._skipPending THEN [a EXCEPT !._isLoopingNow = FALSE]
         ELSE [a EXCEPT !._isLoopingNow = TRUE, !._init = TRUE]
    ELSE [a EXCEPT !._isLoopingNow = FALSE,
                   !._isRunning = FALSE,
                   !._currentFunc = nullptr]

(* A faulty early return: the pause flag is not consulted. *)
UpdateIgnoresPause(a) == ~a._isRunning \/ a._currentFunc = nullptr

(* update(): the early return *)
UpdateIsNoOp(a) == ~a._isRunning \/ a._isPaused \/ a._currentFunc = nullptr

(* update(): `return _isRunning;` *)
Returned(a2, r) ==
    [a |-> a2, p |-> r.p, s |-> r.s, ret |-> a2._isRunning, done |-> r.done]

(* update(): the loop/stop policy applied when the step returned true *)
AfterStep(r) == Returned(IF r.done THEN OnComplete(r.a) ELSE r.a, r)

(* update(): the body after `_currentTime = syncTime` *)
WithTime(a1, p, s, e, rnd) ==
    IF UpdateIsNoOp(a1)
    THEN [a |-> a1, p |-> p, s |-> s, ret |-> FALSE, done |-> FALSE]
    ELSE AfterStep(RunCurrentFunc(a1, p, s, e, rnd))

(* update(syncTime): engine, pixels and statics after the call, the value  *)
(* returned (ret) and whether the step function signalled completion.      *)
Update(a, p, s, e, syncTime, rnd) ==
    WithTime([a EXCEPT !._currentTime = syncTime], p, s, e, rnd)

animInit(a) == [a EXCEPT !._init = TRUE]

pause(a) == [a EXCEPT !._isPaused = TRUE]

resume(a) == [a EXCEPT !._isPaused = FALSE]

(* A faulty stop(): the pause flag is left as it was. *)
StopKeepsPause(a) ==
    [a EXCEPT !._isRunning = FALSE,
              !._skipPending = FALSE,
              !._currentFunc = nullptr,
              !._animLogicSet = FALSE]

stop(a) ==
    [a EXCEPT !._isPaused = FALSE,
              !._isRunning = FALSE,
              !._skipPending = FALSE,
              !._currentFunc = nullptr,
              !._animLogicSet = FALSE]

loop(a) == [a EXCEPT !._loop = TRUE]

noLoop(a) == [a EXCEPT !._loop = FALSE]

setDir(a, newDirection) ==
    [a EXCEPT !._animRenderDirIsReversed = newDirection, !._animDirSet = TRUE]

toggleDir(a) ==
    [a EXCEPT !._animRenderDirIsReversed = ~a._animRenderDirIsReversed,
              !._animDirSet = TRUE]

reverseDir(a) ==
    [a EXCEPT !._animRenderDirIsReversed = ~a._AnimInitDirIsReversed,
              !._animDirSet = TRUE]

resetDir(a) ==
    [a EXCEPT !._animRenderDirIsReversed = a._AnimInitDirIsReversed,
              !._animDirSet = FALSE]

setLogic(a, newLogic) ==
    IF a._isNonInvertingLogicAnim THEN a
    ELSE [a EXCEPT !._animRenderLogicIsInverted = newLogic, !._animLogicSet = TRUE]

(* A faulty toggleLogic: the test of _isNonInvertingLogicAnim is missing. *)
ToggleLogicUnguarded(a) ==
    [a EXCEPT !._animRenderLogicIsInverted = ~a._animRenderLogicIsInverted,
              !._animLogicSet = TRUE]

toggleLogic(a) ==
    IF a._isNonInvertingLogicAnim THEN a
    ELSE [a EXCEPT !._animRenderLogicIsInverted = ~a._animRenderLogicIsInverted,
                   !._animLogicSet = TRUE]

invertLogic(a) ==
    IF a._isNonInvertingLogicAnim THEN a
    ELSE [a EXCEPT !._animRenderLogicIsInverted = ~a._AnimInitLogicIsInverted,
                   !._animLogicSet = TRUE]

resetLogic(a) ==
    IF a._isNonInvertingLogicAnim THEN a
    ELSE [a EXCEPT !._animRenderLogicIsInverted = a._AnimInitLogicIsInverted,
                   !._animLogicSet = FALSE]

stopBlockEmission(a) == [a EXCEPT !._emittingBlocksEnabled = FALSE]

resumeBlockEmission(a) == [a EXCEPT !._emittingBlocksEnabled = TRUE]

isRunning(a) == a._isRunning

isPaused(a) == a._isPaused

isLoopEnabled(a) == a._loop

(* animPendingLoop(): the engine after the call *)
(* A level-triggered animPendingLoop(): the just-looped mark is left set   *)
(* after it was read.                                                      *)
AnimPendingLoopSticky(a) ==
    IF a._skipPending THEN [a EXCEPT !._skipPending = FALSE] ELSE a

animPendingLoop(a) ==
    IF a._skipPending THEN [a EXCEPT !._skipPending = FALSE]
    ELSE IF a._isLoopingNow THEN [a EXCEPT !._isLoopingNow = FALSE]
    ELSE a

(* animPendingLoop(): the value returned *)
animPendingLoopRet(a) == ~a._skipPending /\ a._isLoopingNow

isLogicInverted(a) == a._AnimInitLogicIsInverted # a._animRenderLogicIsInverted

isDirectionReversed(a) == a._AnimInitDirIsReversed # a._animRenderDirIsReversed

isNonInvertingLogicAnim(a) == a._isNonInvertingLogicAnim

-----------------------------------------------------------------------------
(* Actions of the resolver: the public functions of SBK_BarMeter.          *)

(* setDirection(dir) *)
setDirection(dir) ==
    /\ bar' = [bar EXCEPT !._direction = dir]
    /\ UNCHANGED <<leds, res>>
    /\ UNCHANGED engineVars

(* setSegmentOffset(offset) *)
setSegmentOffset(offset) ==
    /\ bar' = [bar EXCEPT !._segOffset = offset]
    /\ UNCHANGED <<leds, res>>
    /\ UNCHANGED engineVars

(* setMatrixOffset(rowOffset, colOffset) *)
setMatrixOffset(rowOffset, colOffset) ==
    /\ bar' = [bar EXCEPT !._rowOffset = rowOffset, !._colOffset = colOffset]
    /\ UNCHANGED <<leds, res>>
    /\ UNCHANGED engineVars

(* _driver->setLed(dev, row, col, on) of the external driver: the buffer   *)
(* is the set of addresses last told to be lit.                            *)
SetLed(buffer, addr, on) == IF on THEN buffer \cup {addr} ELSE buffer \ {addr}

(* An index at or past the segment count wrapped into the bar instead of   *)
(* being turned away.                                                      *)
AcceptedSegmentWrapped(b, segment) ==
    IF b._segsNum = 0 THEN -1 ELSE segment % b._segsNum

(* The guard of setPixel and getPixelState: the segment the call goes on   *)
(* with, or -1 when it returns at once (segment >= _segsNum).              *)
AcceptedSegment(b, segment) ==
    IF segment >= b._segsNum THEN -1 ELSE segment

(* setPixel(segment, state) on the bar and the driver. *)
BarSetPixel(segment, state) ==
    /\ IF AcceptedSegment(bar, segment) < 0
       THEN UNCHANGED <<leds, res>>
       ELSE /\ res' = [seg |-> AcceptedSegment(bar, segment),
                       addr |-> GetMappedDevRowCol(bar, AcceptedSegment(bar, segment))]
            /\ leds' = SetLed(leds,
                              GetMappedDevRowCol(bar, AcceptedSegment(bar, segment)),
                              state # 0)
    /\ UNCHANGED bar

(* setPixel(segment, state) *)
setPixel(segment, state) ==
    /\ BarSetPixel(segment, state)
    /\ UNCHANGED engineVars

(* debugSegmentMapping(): one iteration, the address resolved for segment i *)
debugSegmentMapping(i) ==
    /\ i < bar._segsNum
    /\ res' = [seg |-> i, addr |-> GetMappedDevRowCol(bar, i)]
    /\ UNCHANGED <<bar, leds>>
    /\ UNCHANGED engineVars

-----------------------------------------------------------------------------
(* Actions of the engine: one per public function of                       *)
(* SBK_BarMeterAnimations, on engine instance e.                           *)

(* A call that changes only the engine's members and returns *this. *)
EngineCall(e, op, a1) ==
    /\ anim' = [anim EXCEPT ![e] = a1]
    /\ hist' = [hist EXCEPT !.op = op, !.e = e, !.ret = FALSE, !.done = FALSE,
                            !.ctl = IF hist.calls < 0 THEN hist.ctl ELSE op,
                            !.mark = hist.calls]
    /\ UNCHANGED <<pix, shared, clock>>
    /\ UNCHANGED resolverVars

(* A start function: the count of update() calls starts again. *)
StartCall(e, a1) ==
    /\ anim' = [anim EXCEPT ![e] = a1]
    /\ hist' = [op |-> "start", e |-> e, ret |-> FALSE, done |-> FALSE,
                calls |-> IF hist.calls < 0 THEN hist.calls ELSE 0,
                ctl |-> IF hist.calls < 0 THEN hist.ctl ELSE "start",
                mark |-> IF hist.calls < 0 THEN hist.mark ELSE 0]
    /\ UNCHANGED <<pix, shared, clock>>
    /\ UNCHANGED resolverVars

(* The outcomes of random(): every permutation of the segments. *)
Perms(n) ==
    { f \in [1 .. n -> 0 .. n - 1] : \A i, j \in 1 .. n : f[i] = f[j] => i = j }

Identity(n) == [i \in 1 .. n |-> i - 1]

(* The values the signal variables of the program may hold. *)
SignalValues == {0, 300, 600}

(* What a 16-bit read through the byte pointer bpmPtr gives: the byte or   *)
(* the byte and a neighbour of 1 above it.                                 *)
BpmReads == {0, 116, 256}

(* What the build leaves in beat after 60000 / 0. *)
WildQuotients == {0, 65535}

(* random(-4, 4): its least and its greatest value. *)
RandomOffsets == {-4, 3}

(* The follower algorithms. *)
Followers ==
    {"_followSignalSmooth", "_followSignalWithPointer",
     "_followDualSignalCenterMirror", "_followSignalFloatingPeak"}

(* The nondeterministic inputs one update() of engine a may consume: the   *)
(* shuffle (perm), the byte read through a null or too short pixelOrder    *)
(* (wild), the result of a step that indexes outside the block pool, the   *)
(* values of the signals read by a follower (sig1, sig2), the value a read *)
(* through a null signal pointer or a division by zero yields (wild16),    *)
(* and for the beat pulse the 16 bits read through bpmPtr (bpm) and the    *)
(* values of random(): rise is all of random(3, 5); fall, gate and offset  *)
(* are the ends of random(0, 4), random(50, 300) and random(-4, 4).        *)
RndChoices(a, s) ==
    LET shuffles == a._currentFunc = "_randomPixelUpdater" /\ a._init
        wildRead == /\ a._currentFunc = "_randomPixelUpdater" /\ ~a._init
                    /\ (s.pixelOrder.null \/ Len(s.pixelOrder.arr) < a._segsNum)
        beats == a._currentFunc = "_beatPulse"
        wildPool == /\ ~a._init
                    /\ \/ /\ a._currentFunc \in {"_mirrorBlocks", "_scrollingBlocks"}
                          /\ Len(a._blocks) < a._param4
                       \/ /\ a._currentFunc = "_stackingBlocks"
                          /\ Len(a._blocks) < 1
    IN  [perm : IF shuffles THEN Perms(a._segsNum) ELSE {Identity(a._segsNum)},
         wild : IF wildRead THEN 0 .. a._segsNum ELSE {0},
         wildDone : IF wildPool THEN BOOLEAN ELSE {FALSE},
         sig1 : IF a._sigPtr1 = "sig1" \/ a._sigPtr2 = "sig1" THEN SignalValues ELSE {0},
         sig2 : IF a._sigPtr2 = "sig2" THEN SignalValues ELSE {0},
         wild16 : IF a._currentFunc \in Followers /\ a._sigPtr1 = nullptr
                      /\ a._sigPtr2 # nullptr
                  THEN SignalValues
                  ELSE IF beats /\ a._usePtr /\ a._sigPtr1 # nullptr
                  THEN WildQuotients ELSE {0},
         bpm : IF beats /\ a._usePtr /\ a._sigPtr1 # nullptr THEN BpmReads ELSE {0},
         rise : IF beats THEN 3 .. 4 ELSE {0},
         fall : IF beats THEN {0, 3} ELSE {0},
         gate : IF beats THEN {50, 299} ELSE {0},
         offset : IF beats THEN RandomOffsets ELSE {0}]

(* The state after an update() of engine e that produced r. *)
ApplyUpdate(e, dt, r) ==
    /\ anim' = [anim EXCEPT ![e] = r.a]
    /\ pix' = [pix EXCEPT ![e] = r.p]
    /\ shared' = r.s
    /\ clock' = clock + dt
    /\ hist' = [op |-> "update", e |-> e, ret |-> r.ret, done |-> r.done,
                calls |-> IF hist.calls < 0 THEN hist.calls ELSE hist.calls + 1,
                ctl |-> hist.ctl, mark |-> hist.mark]
    /\ UNCHANGED resolverVars

(* update(syncTime) with syncTime = millis(), dt after the previous call *)
DoUpdate(e, dt) ==
    \E rnd \in RndChoices(anim[e], shared) :
        ApplyUpdate(e, dt, Update(anim[e], pix[e], shared, e, clock + dt, rnd))

DoAnimInit(e) == EngineCall(e, "call", animInit(anim[e]))

DoPause(e) == EngineCall(e, "call", pause(anim[e]))

DoResume(e) == EngineCall(e, "call", resume(anim[e]))

DoStop(e) == EngineCall(e, "stop", stop(anim[e]))

DoLoop(e) == EngineCall(e, "call", loop(anim[e]))

DoNoLoop(e) == EngineCall(e, "call", noLoop(anim[e]))

DoSetDir(e, d) == EngineCall(e, "setDir", setDir(anim[e], d))

DoToggleDir(e) == EngineCall(e, "toggleDir", toggleDir(anim[e]))

DoReverseDir(e) == EngineCall(e, "reverseDir", reverseDir(anim[e]))

DoResetDir(e) == EngineCall(e, "resetDir", resetDir(anim[e]))

DoSetLogic(e, l) == EngineCall(e, "logic", setLogic(anim[e], l))

DoToggleLogic(e) == EngineCall(e, "logic", toggleLogic(anim[e]))

DoInvertLogic(e) == EngineCall(e, "logic", invertLogic(anim[e]))

DoResetLogic(e) == EngineCall(e, "logic", resetLogic(anim[e]))

DoStopBlockEmission(e) ==
    EngineCall(e, "stopEmission", stopBlockEmission(anim[e]))

DoResumeBlockEmission(e) ==
    EngineCall(e, "call", resumeBlockEmission(anim[e]))

(* animPendingLoop() *)
DoAnimPendingLoop(e) ==
    /\ anim' = [anim EXCEPT ![e] = animPendingLoop(anim[e])]
    /\ hist' = [hist EXCEPT !.op = "query", !.e = e,
                            !.ret = animPendingLoopRet(anim[e]), !.done = FALSE]
    /\ UNCHANGED <<pix, shared, clock>>
    /\ UNCHANGED resolverVars

DoSetAllOn(e) == StartCall(e, StartSetAllOn(anim[e]))

DoSetAllOff(e) == StartCall(e, StartSetAllOff(anim[e]))

DoFillUpIntv(e, intv, maxP, minP) ==
    StartCall(e, fillUpIntv(anim[e], intv, maxP, minP))

DoFillDownIntv(e, intv, maxP, minP) ==
    StartCall(e, fillDownIntv(anim[e], intv, maxP, minP))

DoEmptyDownIntv(e, intv, maxP, minP) ==
    StartCall(e, emptyDownIntv(anim[e], intv, maxP, minP))

DoEmptyUpIntv(e, intv, maxP, minP) ==
    StartCall(e, emptyUpIntv(anim[e], intv, maxP, minP))

DoBounceFillFromCenterIntv(e, fillIntv, emptyIntv, maxP, minP) ==
    StartCall(e, bounceFillFromCenterIntv(anim[e], fillIntv, emptyIntv, maxP, minP))

DoBounceFillFromEdgesIntv(e, fillIntv, emptyIntv, maxP, minP) ==
    StartCall(e, bounceFillFromEdgesIntv(anim[e], fillIntv, emptyIntv, maxP, minP))

DoBounceFillUpIntv(e, fillIntv, emptyIntv, maxP, minP) ==
    StartCall(e, bounceFillUpIntv(anim[e], fillIntv, emptyIntv, maxP, minP))

DoExplodingBlocks(e, intv, len, spacing, num) ==
    StartCall(e, explodingBlocks(anim[e], intv, len, spacing, num))

DoCollidingBlocks(e, intv, len, spacing, num) ==
    StartCall(e, collidingBlocks(anim[e], intv, len, spacing, num))

DoScrollingUpBlocks(e, intv, len, spacing, num) ==
    StartCall(e, scrollingUpBlocks(anim[e], intv, len, spacing, num))

DoDownStackingBlocks(e, intv, len, spacing) ==
    StartCall(e, downStackingBlocks(anim[e], intv, len, spacing))

DoUpUnstackingBlocks(e, intv, len, spacing) ==
    StartCall(e, upUnstackingBlocks(anim[e], intv, len, spacing))

DoUpStackingBlocks(e, intv, len, spacing) ==
    StartCall(e, upStackingBlocks(anim[e], intv, len, spacing))

DoDownUnstackingBlocks(e, intv, len, spacing) ==
    StartCall(e, downUnstackingBlocks(anim[e], intv, len, spacing))

DoScrollingDownBlocks(e, intv, len, spacing, num) ==
    StartCall(e, scrollingDownBlocks(anim[e], intv, len, spacing, num))

DoRandomFill(e, intv) == StartCall(e, randomFill(anim[e], intv))

DoBeatPulse(e, bpm) == StartCall(e, beatPulse(anim[e], bpm))

DoBeatPulsePtr(e, bpmPtr) == StartCall(e, beatPulsePtr(anim[e], bpmPtr))

DoFollowSignalSmooth(e, sigPtr, intv, maxMap, factor) ==
    StartCall(e, followSignalSmooth(anim[e], sigPtr, intv, 0, maxMap, factor, 5))

DoFollowSignalWithPointer(e, sigPtr, intv, maxMap, factor) ==
    StartCall(e, followSignalWithPointer(anim[e], sigPtr, intv, 0, maxMap, factor, 5))

DoFollowDualSignalFromCenter(e, sig1Ptr, intv, sig2Ptr, maxMap, factor) ==
    StartCall(e, followDualSignalFromCenter(anim[e], sig1Ptr, intv, sig2Ptr,
                                            0, maxMap, factor, 5))

DoFollowDualSignalFromEdges(e, sig1Ptr, intv, sig2Ptr, maxMap, factor) ==
    StartCall(e, followDualSignalFromEdges(anim[e], sig1Ptr, intv, sig2Ptr,
                                           0, maxMap, factor, 5))

DoFollowSignalFloatingPeak(e, sigPtr, hold, intv, maxMap, factor) ==
    StartCall(e, followSignalFloatingPeak(anim[e], sigPtr, hold, intv,
                                          0, maxMap, factor, 5))

-----------------------------------------------------------------------------
(* Specification SpecResolver: one bar built by any of the four            *)
(* constructors, then driven through its public functions.                 *)

(* The table of the claim: logical segment 5 is {device 1, row 0, col 1}.  *)
TableA == << <<0, 0, 0>>, <<0, 1, 0>>, <<0, 2, 0>>, <<0, 3, 0>>,
             <<1, 0, 0>>, <<1, 0, 1>> >>

(* The first rows of the table of examples/customMappingDemo.              *)
TableB == << <<0, 0, 0>>, <<0, 1, 0>>, <<0, 2, 0>>, <<0, 3, 0>> >>

DevArgs == {0, 1, 2}

Directions == {FORWARD, REVERSE}

RowOffsetArgs == {0, 6}

ColOffsetArgs == {0, 1}

Presets == {"NONE", "SBK_BarMeter_SK28", "BL28_3005SK", "BL28_3005SA"}

(* What the uninitialised _segsNum of the rows/columns constructor holds.  *)
GarbageBytes == {8, 255}

SegsNumArgs == {8, 100}

SegOffsetArgs == {0, 60}

BarsPreset ==
    { BarPreset(DevsNum, d, m, dir, ro, co) :
        d \in DevArgs, m \in Presets, dir \in Directions,
        ro \in RowOffsetArgs, co \in ColOffsetArgs }

BarsMatrix ==
    { BarMatrix(DevsNum, d, r, c, dir, ro, co, g) :
        d \in DevArgs, r \in {4}, c \in {2, 9}, dir \in Directions,
        ro \in RowOffsetArgs, co \in ColOffsetArgs, g \in GarbageBytes }

BarsSegs ==
    { BarSegs(DevsNum, d, n, dir, so) :
        d \in DevArgs, n \in SegsNumArgs, dir \in Directions, so \in SegOffsetArgs }

BarsCustom ==
    { BarCustom(DevsNum, d, t, dir, pm, ro, co) :
        d \in DevArgs, t \in {TableA, TableB}, dir \in Directions,
        pm \in BOOLEAN, ro \in RowOffsetArgs, co \in ColOffsetArgs }

NoRes == [seg |-> 255, addr |-> [dev |-> 255, row |-> 255, col |-> 255]]

NoHist ==
    [op |-> "none", e |-> 0, ret |-> FALSE, done |-> FALSE, calls |-> -1,
     ctl |-> "none", mark |-> -1]

NoStatics ==
    [pixelOrder |-> NullOrder, foreign |-> FALSE, randomOffset |-> 0, isPeak |-> FALSE]

(* No more than MaxLit LEDs are lit at a time in SpecResolver. *)
MaxLit == 1

(* The segments the resolver is asked about. *)
ProbeSegs == {0, 5, 27}

InitResolver ==
    /\ bar \in BarsPreset \cup BarsMatrix \cup BarsSegs \cup BarsCustom
    /\ leds = {}
    /\ res = NoRes
    /\ anim = << >>
    /\ pix = << >>
    /\ shared = NoStatics
    /\ clock = 0
    /\ hist = NoHist

NextResolver ==
    \/ \E dir \in Directions : setDirection(dir)
    \/ \E so \in SegOffsetArgs : setSegmentOffset(so)
    \/ \E ro \in RowOffsetArgs, co \in ColOffsetArgs : setMatrixOffset(ro, co)
    \/ \E i \in ProbeSegs, st \in {0, 1} :
          /\ (st = 1 => Cardinality(leds) < MaxLit)
          /\ setPixel(i, st)
    \/ \E i \in ProbeSegs : debugSegmentMapping(i)

SpecResolver == InitResolver /\ [][NextResolver]_vars

(* An address the transport can take: device, row and column in range. *)
InBounds(addr) ==
    /\ addr.dev < DevsNum
    /\ addr.row < maxRows(addr.dev)
    /\ addr.col < maxColumns

(* The bar was built on a device index the driver has. *)
ValidDevice == ~DevInvalid(bar)

(* C1: on a valid device, every logical index below the segment count     *)
(* resolves to an address inside the transport's bounds (device below the  *)
(* device count, row and column below the per-device maxima), in FORWARD   *)
(* and in REVERSE, whichever constructor and arguments built the bar.      *)
C1_ResolvesWithinBounds ==
    (ValidDevice /\ anim = << >>)
        => \A i \in 0 .. bar._segsNum - 1 : InBounds(GetMappedDevRowCol(bar, i))

(* C2: with a custom table, in flash or in RAM, a logical index resolves   *)
(* to the table's device verbatim and to the table's row and column plus   *)
(* the configured row and column offsets.                                  *)
C2_CustomTablePlusOffsets ==
    (ValidDevice /\ bar._customMapping # NoMapping /\ bar._direction = FORWARD
       /\ anim = << >>)
        => \A i \in 0 .. bar._segsNum - 1 :
              GetMappedDevRowCol(bar, i) =
                 [dev |-> TableAt(bar, i)[1],
                  row |-> U8(TableAt(bar, i)[2] + bar._rowOffset),
                  col |-> U8(TableAt(bar, i)[3] + bar._colOffset)]

-----------------------------------------------------------------------------
(* Specification Spec: one engine on a bar of SegsNum segments, driven     *)
(* through its public functions in any order.                              *)

(* The bar of the resolver variables while the engine specifications run.  *)
IdleBar == BarSegs(DevsNum, 0, 8, FORWARD, 0)

InitIdleResolver ==
    /\ bar = IdleBar
    /\ leds = {}
    /\ res = NoRes

(* Segments of the bar in Spec. *)
SegsNum == 2

(* update() is called until the clock reaches MaxTime. *)
MaxTime == 30

(* Milliseconds between two update() calls. *)
Deltas == {0, 5}

(* Arguments of the interval-based starters: interval (clamped to 5 ms by  *)
(* the starter), then maxPercent and minPercent.                           *)
IntvArgs == {1}

RangeArgs == {<<100, 0>>}

Init ==
    /\ InitIdleResolver
    /\ anim = <<EngineDefaults(SegsNum)>>
    /\ pix = <<Clear(SegsNum)>>
    /\ shared = NoStatics
    /\ clock = 0
    /\ hist = NoHist

Next ==
    \/ \E e \in DOMAIN anim, dt \in Deltas : clock + dt <= MaxTime /\ DoUpdate(e, dt)
    \/ \E e \in DOMAIN anim : DoAnimInit(e)
    \/ \E e \in DOMAIN anim : DoPause(e)
    \/ \E e \in DOMAIN anim : DoResume(e)
    \/ \E e \in DOMAIN anim : DoStop(e)
    \/ \E e \in DOMAIN anim : DoLoop(e)
    \/ \E e \in DOMAIN anim : DoNoLoop(e)
    \/ \E e \in DOMAIN anim : DoAnimPendingLoop(e)
    \/ \E e \in DOMAIN anim : DoSetAllOn(e)
    \/ \E e \in DOMAIN anim, i \in IntvArgs, r \in RangeArgs :
          DoFillUpIntv(e, i, r[1], r[2])
    \/ \E e \in DOMAIN anim, i \in IntvArgs, r \in RangeArgs :
          DoBounceFillUpIntv(e, i, i, r[1], r[2])

Spec == Init /\ [][Next]_vars

-----------------------------------------------------------------------------
(* Specification SpecFill28: a fresh engine on a 28-segment forward bar,   *)
(* fillUpIntv(25, 100, 0) once, looping left disabled, then update() with  *)
(* timestamps 25 ms apart. hist.calls counts the update() calls.           *)

Segs28 == 28

Intv25 == 25

(* update() is called MaxCalls times in SpecFill28. *)
MaxCalls == 32

(* millis() when the animation is started. *)
StartTimes == {0, 10, 24, 1000, 60000}

InitFill28 ==
    /\ InitIdleResolver
    /\ anim = <<EngineDefaults(Segs28)>>
    /\ pix \in {<<Clear(Segs28)>>, <<AllOn(Segs28)>>}
    /\ shared = NoStatics
    /\ clock \in StartTimes
    /\ hist = [NoHist EXCEPT !.calls = 0]

NextFill28 ==
    \/ hist.op = "none" /\ DoFillUpIntv(1, Intv25, 100, 0)
    \/ hist.op # "none" /\ hist.calls < MaxCalls /\ DoUpdate(1, Intv25)

SpecFill28 == InitFill28 /\ [][NextFill28]_vars

(* Segments lo .. hi of engine e's bar are all lit. *)
LitRange(e, lo, hi) == \A k \in lo .. hi : pix[e][k]

(* C3: on the 28-segment forward bar, after fillUpIntv(25, 100, 0) without *)
(* loop and update() every 25 ms: segment 0 is lit from the first update() *)
(* on (the setup pass lights it); after the 28th call segments 0..26 are   *)
(* lit and segment 27 is not; all 28 are lit after the 29th call; the 30th *)
(* call is the one that completes, and isRunning() is false from then on.  *)
C3_FillCompletesTwoCallsLater ==
    /\ (hist.calls >= 1 => pix[1][0])
    /\ (hist.calls \in 1 .. 28 =>
           /\ LitRange(1, 0, hist.calls - 2)
           /\ \A k \in hist.calls - 1 .. 27 : k > 0 => ~pix[1][k])
    /\ (hist.calls >= 29 => LitRange(1, 0, 27))
    /\ (hist.calls \in 1 .. 29 => isRunning(anim[1]) /\ hist.ret)
    /\ (hist.calls >= 30 => ~isRunning(anim[1]) /\ ~hist.ret)

(* C3 (witness): the 30th update() has just completed the animation. *)
C3_Witness ==
    /\ hist.calls = 30 /\ hist.op = "update" /\ hist.done
    /\ LitRange(1, 0, 27) /\ ~isRunning(anim[1])

(* C3 as stated: segment 0 lit after the first call, all 28 segments lit   *)
(* after the 28th call, and isRunning() false from the 28th call on.       *)
C3_AsStated ==
    /\ (hist.calls >= 1 => pix[1][0])
    /\ (hist.calls >= 28 => LitRange(1, 0, 27) /\ ~isRunning(anim[1]))

-----------------------------------------------------------------------------
(* Claims on the scheduler, checked under Spec.                            *)

C5_LoopCompletionDefersInit ==
    /\ [](hist.done /\ anim[1]._loop /\ ~anim[1]._skipPending =>
            /\ hist.ret /\ isRunning(anim[1]) /\ anim[1]._isLoopingNow
            /\ anim[1]._init /\ anim[1]._currentFunc # nullptr)
    /\ [][(hist'.done /\ anim'[1]._loop /\ ~anim'[1]._skipPending
             /\ anim[1]._currentFunc = "_fillOrEmpty") => pix' = pix]_vars
    /\ [][(hist.done /\ hist.ret /\ anim[1]._init /\ hist'.op = "update"
             /\ ~anim[1]._isPaused /\ anim[1]._currentFunc = "_fillOrEmpty") =>
            /\ ~anim'[1]._init
            /\ anim'[1]._ledTracker1 = anim'[1]._minTracker
            /\ pix'[1] = PreFill(anim'[1], anim'[1]._minTracker)]_vars

(* C5 (witness): a looping fill has completed with the bar full, and the   *)
(* bar is still full after that update().                                  *)
C5_Witness ==
    /\ hist.op = "update" /\ hist.done /\ hist.ret /\ anim[1]._loop
    /\ anim[1]._currentFunc = "_fillOrEmpty" /\ anim[1]._isLoopingNow /\ anim[1]._init
    /\ LitRange(1, 0, SegsNum - 1)

(* C7: right after stop() the engine is neither running nor paused, has no *)
(* algorithm, no skip-loop request and no manual logic override, and the   *)
(* next update() returns false and changes no pixel. stop() leaves the     *)
(* loop flag, the just-looped flag and the block-emission flag as they     *)
(* were: isLoopEnabled() still answers the loop flag and animPendingLoop() *)
(* still answers (and clears) the just-looped flag.                        *)
C7_StopClearsSelectionOnly ==
    /\ [](hist.op = "stop" =>
            /\ ~isRunning(anim[1]) /\ ~isPaused(anim[1])
            /\ anim[1]._currentFunc = nullptr
            /\ ~anim[1]._skipPending /\ ~anim[1]._animLogicSet)
    /\ [][hist'.op = "stop" =>
            /\ isLoopEnabled(anim'[1]) = isLoopEnabled(anim[1])
            /\ anim'[1]._isLoopingNow = anim[1]._isLoopingNow
            /\ anim'[1]._emittingBlocksEnabled = anim[1]._emittingBlocksEnabled
            /\ pix' = pix]_vars
    /\ [][(hist.op = "stop" /\ hist'.op = "update") => ~hist'.ret /\ pix' = pix]_vars
    /\ [][(hist.op = "stop" /\ hist'.op = "query") =>
            hist'.ret = anim[1]._isLoopingNow]_vars

(* C7 (witness): stop() was called on a looping engine right after a loop  *)
(* completion; loop and just-looped are still set.                         *)
C7_Witness ==
    /\ hist.op = "stop" /\ isLoopEnabled(anim[1]) /\ anim[1]._isLoopingNow
    /\ \E k \in 0 .. SegsNum - 1 : pix[1][k]

(* C7 as stated: right after stop() isRunning() and isPaused() are false,  *)
(* no algorithm is selected, isLoopEnabled() is false and animPendingLoop()*)
(* would return false.                                                     *)
C7_AsStated ==
    hist.op = "stop" =>
        /\ ~isRunning(anim[1]) /\ ~isPaused(anim[1])
        /\ anim[1]._currentFunc = nullptr
        /\ ~isLoopEnabled(anim[1])
        /\ ~animPendingLoopRet(anim[1])

(* C8: right after any start function the initialisation flag is armed, so *)
(* that the first update() running the new algorithm performs its setup.   *)
C8_StartRearmsInit ==
    hist.op = "start" => anim[hist.e]._init

-----------------------------------------------------------------------------
(* Specification SpecDual: two engines, for two bars of DualSegs segments  *)
(* on one transport, each started once with randomFill while still fresh,  *)
(* and updated in any interleaving from the same loop.                     *)

(* Segments of each of the two bars. *)
DualSegs == 3

(* update() is called until the clock reaches MaxTimeDual. *)
MaxTimeDual == 15

InitDual ==
    /\ InitIdleResolver
    /\ anim = <<EngineDefaults(DualSegs), EngineDefaults(DualSegs)>>
    /\ pix = <<Clear(DualSegs), Clear(DualSegs)>>
    /\ shared = NoStatics
    /\ clock = 0
    /\ hist = NoHist

NextDual ==
    \/ \E e \in DOMAIN anim, i \in IntvArgs :
          anim[e]._currentFunc = nullptr /\ anim[e]._init /\ DoRandomFill(e, i)
    \/ \E e \in DOMAIN anim, dt \in Deltas :
          clock + dt <= MaxTimeDual /\ DoUpdate(e, dt)

SpecDual == InitDual /\ [][NextDual]_vars

(* C9: two engines updated in turn are independent: an engine whose        *)
(* randomFill has completed has lit every segment of its own bar, and no   *)
(* engine has read or freed a pixel order that another engine allocated.   *)
C9_EnginesIndependent ==
    /\ ~shared.foreign
    /\ \A e \in DOMAIN anim :
          (hist.op = "update" /\ hist.e = e /\ hist.done) => LitRange(e, 0, DualSegs - 1)

(* The visible half of C9 alone: a completed randomFill has lit its bar.   *)
RandomFillCompletesFull ==
    \A e \in DOMAIN anim :
        (hist.op = "update" /\ hist.e = e /\ hist.done) => LitRange(e, 0, DualSegs - 1)

-----------------------------------------------------------------------------
(* Specification SpecBlocks: a fresh engine on a bar of BlockSegs          *)
(* segments, one mirrored block animation started with a finite number of  *)
(* blocks and looping left disabled, then update() once per step interval. *)
(* hist.calls counts the update() calls.                                   *)

(* Segments of the bar in SpecBlocks. *)
BlockSegs == 8

(* update() is called MaxBlockCalls times in SpecBlocks. *)
MaxBlockCalls == 560

(* blockLength, blockSpacing and numBlocks of the start function. *)
BlockLengthArgs == {1, 2, 125}

BlockSpacingArgs == {0, 1}

NumBlocksArgs == {1, 2}

(* The step interval asked for (the starter raises it to 5 ms). *)
StepIntv == 5

InitBlocks ==
    /\ InitIdleResolver
    /\ anim = <<EngineDefaults(BlockSegs)>>
    /\ pix = <<Clear(BlockSegs)>>
    /\ shared = NoStatics
    /\ clock \in {0, 3}
    /\ hist = [NoHist EXCEPT !.calls = 0]

NextBlocks ==
    \/ \E l \in BlockLengthArgs, sp \in BlockSpacingArgs, n \in NumBlocksArgs :
          hist.op = "none" /\ DoCollidingBlocks(1, StepIntv, l, sp, n)
    \/ \E l \in BlockLengthArgs, sp \in BlockSpacingArgs, n \in NumBlocksArgs :
          hist.op = "none" /\ DoExplodingBlocks(1, StepIntv, l, sp, n)
    \/ hist.op # "none" /\ hist.calls < MaxBlockCalls /\ isRunning(anim[1])
          /\ DoUpdate(1, StepIntv)

SpecBlocks == InitBlocks /\ [][NextBlocks]_vars

(* N x (blockLength + blockSpacing) + barLength, from the running          *)
(* animation's parameters.                                                 *)
BlockTicks(a) == a._param3 * (a._param1 + a._param2) + a._segsNum

(* C10: a mirrored block animation started with numBlocks = N > 0 and no   *)
(* loop, updated once per step interval, has completed (isRunning() is     *)
(* false) before 4 x (N x (blockLength + blockSpacing) + barLength)        *)
(* update() calls have been made.                                          *)
C10_MirrorBlocksComplete ==
    (hist.op # "none" /\ hist.calls >= 4 * BlockTicks(anim[1])) => ~isRunning(anim[1])

(* The same bound for the runs in which the deactivation threshold         *)
(* center - 1 + blockLength fits the int8_t block position.                *)
MirrorBlocksCompleteWhenThresholdFits ==
    (hist.op # "none" /\ (BlockSegs \div 2) - 1 + anim[1]._param1 <= 127
       /\ hist.calls >= BlockTicks(anim[1]) + 3) => ~isRunning(anim[1])

-----------------------------------------------------------------------------
(* Specification SpecPause: one engine on a bar of PauseSegs segments      *)
(* running a fill or a mirrored block animation, paused, resumed, stopped  *)
(* and updated in any order.                                               *)

(* Segments of the bar in SpecPause. *)
PauseSegs == 4

(* update() is called until the clock reaches MaxTimePause. *)
MaxTimePause == 25

InitPause ==
    /\ InitIdleResolver
    /\ anim = <<EngineDefaults(PauseSegs)>>
    /\ pix = <<Clear(PauseSegs)>>
    /\ shared = NoStatics
    /\ clock = 0
    /\ hist = NoHist

NextPause ==
    \/ \E dt \in Deltas : clock + dt <= MaxTimePause /\ DoUpdate(1, dt)
    \/ DoAnimInit(1)
    \/ DoPause(1)
    \/ DoResume(1)
    \/ DoStop(1)
    \/ \E i \in IntvArgs, r \in RangeArgs : DoFillUpIntv(1, i, r[1], r[2])
    \/ \E i \in IntvArgs : DoCollidingBlocks(1, i, 1, 1, 2)

SpecPause == InitPause /\ [][NextPause]_vars

(* C6: update() on an engine that is not running, is paused, or has no     *)
(* algorithm returns false, writes no pixel and changes no member but the  *)
(* recorded current time, whatever the timestamp.                          *)
C6_IdleUpdateIsNoOp ==
    [][(hist'.op = "update"
          /\ (~anim[1]._isRunning \/ anim[1]._isPaused \/ anim[1]._currentFunc = nullptr)) =>
         /\ ~hist'.ret /\ ~hist'.done
         /\ pix' = pix
         /\ shared' = shared
         /\ anim'[1] = [anim[1] EXCEPT !._currentTime = clock']]_vars

(* C6 (witness): update() was called on a paused engine with a block in    *)
(* flight, two intervals or more after its last step, and returned false.  *)
C6_Witness ==
    /\ hist.op = "update" /\ ~hist.ret
    /\ anim[1]._isPaused /\ anim[1]._isRunning /\ anim[1]._currentFunc = "_mirrorBlocks"
    /\ ~anim[1]._init /\ AnyActive(anim[1])
    /\ anim[1]._currentTime - anim[1]._lastUpdate1 >= 2 * anim[1]._updateIntv1

-----------------------------------------------------------------------------
(* Specification SpecEmission: a fresh engine on a bar of EmitSegs         *)
(* segments, one mirrored or scrolling block animation started with        *)
(* numBlocks = 0 (continuous emission) and looping left disabled;          *)
(* stopBlockEmission() is called once while it runs, before or after any   *)
(* number of update() calls, and update() goes on once per step interval.  *)

(* Segments of the bar in SpecEmission. *)
EmitSegs == 6

(* update() is called MaxEmitCalls times in SpecEmission. *)
MaxEmitCalls == 40

(* blockLength and blockSpacing of the start function. *)
EmitLengthArgs == {1, 2}

EmitSpacingArgs == {0, 1}

InitEmission ==
    /\ InitIdleResolver
    /\ anim = <<EngineDefaults(EmitSegs)>>
    /\ pix = <<Clear(EmitSegs)>>
    /\ shared = NoStatics
    /\ clock \in {0, 3}
    /\ hist = [NoHist EXCEPT !.calls = 0]

NextEmission ==
    \/ \E l \in EmitLengthArgs, sp \in EmitSpacingArgs :
          hist.op = "none" /\ DoCollidingBlocks(1, StepIntv, l, sp, 0)
    \/ \E l \in EmitLengthArgs, sp \in EmitSpacingArgs :
          hist.op = "none" /\ DoExplodingBlocks(1, StepIntv, l, sp, 0)
    \/ \E l \in EmitLengthArgs, sp \in EmitSpacingArgs :
          hist.op = "none" /\ DoScrollingUpBlocks(1, StepIntv, l, sp, 0)
    \/ \E l \in EmitLengthArgs, sp \in EmitSpacingArgs :
          hist.op = "none" /\ DoScrollingDownBlocks(1, StepIntv, l, sp, 0)
    \/ hist.ctl = "start" /\ isRunning(anim[1]) /\ DoStopBlockEmission(1)
    \/ hist.op # "none" /\ hist.calls < MaxEmitCalls /\ isRunning(anim[1])
          /\ DoUpdate(1, StepIntv)

SpecEmission == InitEmission /\ [][NextEmission]_vars

(* The update() calls a block in flight needs to leave the bar: its head   *)
(* starts at -1 and the block is retired at (_segsNum - 1) + blockLength   *)
(* (scrolling) or earlier (mirrored); one more call reports completion.    *)
FlightCalls(a) == a._segsNum + a._param1 + 2

(* C11: once stopBlockEmission() was called on a running block animation   *)
(* with numBlocks = 0 and no loop, the animation has completed             *)
(* (isRunning() is false) by the time the blocks in flight have had the    *)
(* update() calls they need to leave the bar, twice over.                  *)
C11_StoppedEmissionCompletes ==
    (hist.ctl = "stopEmission" /\ hist.calls - hist.mark >= 2 * FlightCalls(anim[1]))
        => ~isRunning(anim[1])

(* The same, for a stopBlockEmission() made after the setup pass (the      *)
(* first update() of the animation).                                       *)
StoppedAfterSetupCompletes ==
    (hist.ctl = "stopEmission" /\ hist.mark >= 1
       /\ hist.calls - hist.mark >= FlightCalls(anim[1])) => ~isRunning(anim[1])

(* With numBlocks = 0 and emission enabled, no update() of a block         *)
(* animation reports completion: the state reached by the setup pass after *)
(* an early stopBlockEmission() is one the animation never leaves.         *)
EnabledEmissionNeverCompletes ==
    [][(hist'.op = "update" /\ anim'[1]._emittingBlocksEnabled
          /\ anim'[1]._param3 = 0) => ~hist'.done]_vars

-----------------------------------------------------------------------------
(* Specification SpecConverge: a fresh engine on a bar of ConvSegs         *)
(* segments; fillUpIntv over a percent range is run to completion, then    *)
(* emptyDownIntv over the same range is started (with or without an        *)
(* animInit() after it) and run to completion; update() once per interval. *)

(* Segments of the bar in SpecConverge. *)
ConvSegs == 5

(* <<maxPercent, minPercent>> of both start functions. *)
ConvRanges == {<<100, 0>>, <<100, 50>>, <<50, 0>>, <<75, 25>>, <<0, 0>>, <<100, 100>>}

InitConverge ==
    /\ InitIdleResolver
    /\ anim = <<EngineDefaults(ConvSegs)>>
    /\ pix = <<Clear(ConvSegs)>>
    /\ shared = NoStatics
    /\ clock \in {0, 3}
    /\ hist = NoHist

(* The fill has reported completion and nothing was started since. *)
FillCompleted ==
    /\ hist.op = "update" /\ hist.done
    /\ ~isRunning(anim[1]) /\ ~anim[1]._AnimInitLogicIsInverted

(* emptyDownIntv was the last start function called. *)
EmptyStarted == anim[1]._currentFunc = "_fillOrEmpty" /\ anim[1]._AnimInitLogicIsInverted

NextConverge ==
    \/ \E r \in ConvRanges : hist.op = "none" /\ DoFillUpIntv(1, StepIntv, r[1], r[2])
    \/ \E r \in ConvRanges :
          /\ FillCompleted
          /\ emptyDownIntv(anim[1], StepIntv, r[1], r[2])._minTracker = anim[1]._minTracker
          /\ emptyDownIntv(anim[1], StepIntv, r[1], r[2])._maxTracker = anim[1]._maxTracker
          /\ DoEmptyDownIntv(1, StepIntv, r[1], r[2])
    \/ hist.op = "start" /\ EmptyStarted /\ DoAnimInit(1)
    \/ isRunning(anim[1]) /\ DoUpdate(1, StepIntv)

SpecConverge == InitConverge /\ [][NextConverge]_vars

(* The emptying that followed the fill has reported completion. *)
EmptyCompleted ==
    /\ hist.op = "update" /\ hist.done
    /\ ~isRunning(anim[1]) /\ anim[1]._AnimInitLogicIsInverted

(* C12: once fillUpIntv over a percent range and then emptyDownIntv over   *)
(* the same range have both run to completion, every segment of the bar is *)
(* off.                                                                    *)
C12_FillThenEmptyAllOff ==
    EmptyCompleted => \A k \in 0 .. ConvSegs - 1 : ~pix[1][k]

(* The same when the range starts at segment 0 and the emptying ran its    *)
(* setup pass (animInit() was called after emptyDownIntv).                 *)
FillThenEmptyFromZeroWithSetup ==
    (EmptyCompleted /\ anim[1]._minTracker = 0 /\ anim[1]._animRenderLogicIsInverted)
        => \A k \in 0 .. ConvSegs - 1 : ~pix[1][k]

(* An emptying that ran its setup pass leaves lit exactly the segments     *)
(* below the bottom of the range.                                          *)
EmptyLeavesBelowRangeLit ==
    (EmptyCompleted /\ anim[1]._animRenderLogicIsInverted)
        => \A k \in 0 .. ConvSegs - 1 : pix[1][k] <=> k < anim[1]._minTracker

(* An emptying started without animInit() skips its setup pass and leaves  *)
(* the filled bar as it was.                                               *)
EmptyWithoutSetupLeavesFill ==
    (EmptyCompleted /\ ~anim[1]._animRenderLogicIsInverted)
        => \A k \in 0 .. ConvSegs - 1 : pix[1][k] <=> k <= anim[1]._maxTracker

-----------------------------------------------------------------------------
(* Specification SpecRandom: a fresh engine on a bar of 1 or RandSegs      *)
(* segments, randomFill started once, then update() at timestamps that do  *)
(* or do not let the interval elapse; every shuffle outcome is explored.   *)

(* Segments of the longer bar in SpecRandom. *)
RandSegs == 3

(* update() is called MaxRandCalls times in SpecRandom. *)
MaxRandCalls == 9

(* The bar lengths of SpecRandom. *)
RandSizes == {1, RandSegs}

InitRandom ==
    /\ InitIdleResolver
    /\ \E n \in RandSizes :
          /\ anim = <<EngineDefaults(n)>>
          /\ pix = <<Clear(n)>>
    /\ shared = NoStatics
    /\ clock \in {0, 3}
    /\ hist = [NoHist EXCEPT !.calls = 0]

NextRandom ==
    \/ hist.op = "none" /\ DoRandomFill(1, StepIntv)
    \/ \E dt \in Deltas :
          /\ hist.op # "none" /\ hist.calls < MaxRandCalls /\ isRunning(anim[1])
          /\ DoUpdate(1, dt)

SpecRandom == InitRandom /\ [][NextRandom]_vars

(* The segments whose state the step changed. *)
ChangedPixels == { k \in DOMAIN pix[1] : pix'[1][k] # pix[1][k] }

(* The step is an update() of the running randomFill, past its setup pass, *)
(* at a timestamp that lets the interval elapse.                           *)
RandomIntervalStep ==
    /\ hist'.op = "update"
    /\ isRunning(anim[1]) /\ ~anim[1]._init
    /\ anim[1]._currentFunc = "_randomPixelUpdater"
    /\ clock' - anim[1]._lastUpdate1 >= anim[1]._updateIntv1

(* C13: every elapsed interval of a randomFill run changes exactly one     *)
(* pixel, an unlit one that it lights, and visits exactly one new entry of *)
(* the shuffled order; completion is reported with every entry visited and *)
(* every segment lit.                                                      *)
C13_RandomFillCoversOnce ==
    [][RandomIntervalStep =>
         /\ Cardinality(ChangedPixels) = 1
         /\ \A k \in ChangedPixels : ~pix[1][k] /\ pix'[1][k]
         /\ anim'[1]._ledTracker1 = anim[1]._ledTracker1 + 1
         /\ (hist'.done => /\ anim'[1]._ledTracker1 = anim[1]._segsNum
                           /\ \A k \in DOMAIN pix[1] : pix'[1][k])]_vars

(* The same on bars of two segments or more. *)
RandomFillCoversOnceFromTwoSegments ==
    [][(RandomIntervalStep /\ anim[1]._segsNum >= 2) =>
         /\ Cardinality(ChangedPixels) = 1
         /\ \A k \in ChangedPixels : ~pix[1][k] /\ pix'[1][k]
         /\ anim'[1]._ledTracker1 = anim[1]._ledTracker1 + 1
         /\ (hist'.done => /\ anim'[1]._ledTracker1 = anim[1]._segsNum
                           /\ \A k \in DOMAIN pix[1] : pix'[1][k])]_vars

(* On a bar of one segment the loop guard retries++ < _segsNum - 1 is      *)
(* false at once: the segment is never lit and the run never completes.    *)
RandomFillOneSegmentStuck ==
    (anim[1]._segsNum = 1 /\ hist.op # "none")
        => isRunning(anim[1]) /\ ~pix[1][0] /\ anim[1]._ledTracker1 = 0

-----------------------------------------------------------------------------
(* Specification SpecFollow: a fresh engine on a bar of FollowSegs         *)
(* segments that setAllOn has lit; one signal follower is then started     *)
(* with its signal pointer(s) null or pointing to a signal variable, and   *)
(* update() is called at timestamps 5 or 10 ms apart while the signals     *)
(* change freely.                                                          *)

(* Segments of the bar in SpecFollow. *)
FollowSegs == 4

(* update() is called until the clock reaches MaxTimeFollow. *)
MaxTimeFollow == 40

(* updateIntv of the follower start functions (their floor). *)
FollowIntv == 10

(* peakHoldTime of followSignalFloatingPeak (its floor). *)
PeakHold == 20

(* maxMap of the follower start functions: the top of SignalValues. *)
FollowMaxMap == 600

(* smoothingFactor: the smoothed value is the last sample. *)
FollowFactor == 100

(* The first and the second signal pointer handed to a start function. *)
Sig1Args == {nullptr, "sig1"}

Sig2Args == {nullptr, "sig2"}

InitFollow ==
    /\ InitIdleResolver
    /\ anim = <<EngineDefaults(FollowSegs)>>
    /\ pix = <<Clear(FollowSegs)>>
    /\ shared = NoStatics
    /\ clock = 0
    /\ hist = NoHist

(* setAllOn has lit the bar and stopped; no follower was started yet. *)
BarLit ==
    /\ hist.op = "update" /\ ~isRunning(anim[1])
    /\ anim[1]._currentFunc = nullptr /\ anim[1]._sigPtr2 = nullptr
    /\ \A k \in 0 .. FollowSegs - 1 : pix[1][k]

NextFollow ==
    \/ hist.op = "none" /\ DoSetAllOn(1)
    \/ \E p1 \in Sig1Args :
          BarLit /\ DoFollowSignalSmooth(1, p1, FollowIntv, FollowMaxMap, FollowFactor)
    \/ \E p1 \in Sig1Args :
          BarLit /\ DoFollowSignalWithPointer(1, p1, FollowIntv, FollowMaxMap, FollowFactor)
    \/ \E p1 \in Sig1Args, p2 \in Sig2Args :
          BarLit /\ DoFollowDualSignalFromCenter(1, p1, FollowIntv, p2, FollowMaxMap,
                                                 FollowFactor)
    \/ \E p1 \in Sig1Args, p2 \in Sig2Args :
          BarLit /\ DoFollowDualSignalFromEdges(1, p1, FollowIntv, p2, FollowMaxMap,
                                                FollowFactor)
    \/ \E p1 \in Sig1Args :
          BarLit /\ DoFollowSignalFloatingPeak(1, p1, PeakHold, FollowIntv, FollowMaxMap,
                                               FollowFactor)
    \/ \E dt \in {5, 10} :
          /\ hist.op # "none" /\ isRunning(anim[1]) /\ clock + dt <= MaxTimeFollow
          /\ DoUpdate(1, dt)

SpecFollow == InitFollow /\ [][NextFollow]_vars

(* The engine runs a follower whose (first) signal pointer is null. *)
MissingSignal(a) ==
    isRunning(a) /\ ~isPaused(a) /\ a._currentFunc \in Followers /\ a._sigPtr1 = nullptr

(* C14: an update() of a signal follower whose signal pointer is null (for *)
(* the dual followers: whose first pointer is null, whatever the second)   *)
(* turns every segment off, reports completion and dereferences no null    *)
(* pointer.                                                                *)
C14_MissingSignalClearsAndCompletes ==
    [][(hist'.op = "update" /\ MissingSignal(anim[1])) =>
         /\ \A k \in 0 .. FollowSegs - 1 : ~pix'[1][k]
         /\ hist'.done
         /\ ~anim'[1].nullDeref]_vars

(* The same for the followers that were given no signal at all: the        *)
(* one-signal followers with a null pointer, the dual ones with both null. *)
NoSignalAtAllClearsAndCompletes ==
    [][(hist'.op = "update" /\ MissingSignal(anim[1])
          /\ (anim[1]._currentFunc = "_followDualSignalCenterMirror"
                 => anim[1]._sigPtr2 = nullptr)) =>
         /\ \A k \in 0 .. FollowSegs - 1 : ~pix'[1][k]
         /\ hist'.done
         /\ ~anim'[1].nullDeref]_vars

(* A null pointer is dereferenced only by a dual follower started with a   *)
(* null first pointer and a second signal.                                 *)
NullDerefOnlyInDualFollower ==
    anim[1].nullDeref =>
        /\ anim[1]._currentFunc = "_followDualSignalCenterMirror"
        /\ anim[1]._sigPtr1 = nullptr /\ anim[1]._sigPtr2 = "sig2"

-----------------------------------------------------------------------------
(* Specification SpecView: one engine on a bar of ViewSegs segments       *)
(* running a fill (logic can be inverted) or a bounce fill                 *)
(* (non-inverting), with the mutators of the rendering view called at any  *)
(* time between the updates.                                               *)

(* Segments of the bar in SpecView. *)
ViewSegs == 3

(* update() is called until the clock reaches MaxTimeView. *)
MaxTimeView == 30

InitView ==
    /\ InitIdleResolver
    /\ anim = <<EngineDefaults(ViewSegs)>>
    /\ pix = <<Clear(ViewSegs)>>
    /\ shared = NoStatics
    /\ clock = 0
    /\ hist = NoHist

NextView ==
    \/ clock + StepIntv <= MaxTimeView /\ DoUpdate(1, StepIntv)
    \/ DoFillUpIntv(1, StepIntv, 100, 0)
    \/ DoBounceFillUpIntv(1, StepIntv, StepIntv, 100, 0)
    \/ \E l \in BOOLEAN : DoSetLogic(1, l)
    \/ DoToggleLogic(1)
    \/ DoInvertLogic(1)
    \/ DoResetLogic(1)
    \/ DoFillDownIntv(1, StepIntv, 100, 0)
    \/ \E d \in BOOLEAN : DoSetDir(1, d)
    \/ DoToggleDir(1)
    \/ DoReverseDir(1)
    \/ DoResetDir(1)

SpecView == InitView /\ [][NextView]_vars

(* C15: a call of setLogic, toggleLogic, invertLogic or resetLogic made    *)
(* while isNonInvertingLogicAnim() is true leaves every member of the      *)
(* engine and every pixel as they were, so that the rendering logic,       *)
(* isLogicInverted() and all later updates are those of a run without the  *)
(* call.                                                                   *)
C15_NonInvertingIgnoresLogicCalls ==
    [][(hist'.op = "logic" /\ isNonInvertingLogicAnim(anim[1])) =>
         /\ anim' = anim /\ pix' = pix /\ shared' = shared /\ clock' = clock
         /\ isLogicInverted(anim'[1]) = isLogicInverted(anim[1])]_vars

(* C15 (witness): a logic mutator has just been called on a bounce fill    *)
(* that is past its setup pass and has lit part of the bar.                *)
C15_Witness ==
    /\ hist.op = "logic"
    /\ isNonInvertingLogicAnim(anim[1]) /\ isRunning(anim[1])
    /\ anim[1]._currentFunc = "_bounceFill" /\ ~anim[1]._init
    /\ pix[1][0] /\ ~pix[1][ViewSegs - 1]

(* C16: isDirectionReversed() is false right after a start function, true *)
(* right after reverseDir(), flipped by toggleDir(), and false again right *)
(* after resetDir().                                                       *)
C16_DirectionReversedReportsDrift ==
    [][/\ hist'.op = "start" => ~isDirectionReversed(anim'[1])
       /\ hist'.op = "reverseDir" => isDirectionReversed(anim'[1])
       /\ hist'.op = "toggleDir" =>
             isDirectionReversed(anim'[1]) = ~isDirectionReversed(anim[1])
       /\ hist'.op = "resetDir" => ~isDirectionReversed(anim'[1])]_vars

(* No start function and no mutator writes _AnimInitDirIsReversed: the     *)
(* authored direction is never recorded.                                   *)
AuthoredDirectionNeverRecorded == ~anim[1]._AnimInitDirIsReversed

(* resetDir() and reverseDir() therefore work from forward, whatever the   *)
(* animation started: after resetDir() a fillDownIntv renders upward.      *)
ResetDirIsAlwaysForward ==
    /\ hist.op = "resetDir" => ~anim[1]._animRenderDirIsReversed
    /\ hist.op = "reverseDir" => anim[1]._animRenderDirIsReversed

(* isDirectionReversed() is the rendering direction itself. *)
DirectionReversedIsRenderDirection ==
    isDirectionReversed(anim[1]) = anim[1]._animRenderDirIsReversed

-----------------------------------------------------------------------------
(* Specification SpecScroll: one engine on a bar of ScrollSegs segments    *)
(* running scrollingUpBlocks or scrollingDownBlocks, with the logic        *)
(* mutators called at any time between the updates.                        *)

(* Segments of the bar in SpecScroll. *)
ScrollSegs == 4

(* update() is called until the clock reaches MaxTimeScroll. *)
MaxTimeScroll == 30

(* numBlocks of the start function (0: continuous). *)
ScrollNumArgs == {0, 2}

InitScroll ==
    /\ InitIdleResolver
    /\ anim = <<EngineDefaults(ScrollSegs)>>
    /\ pix = <<Clear(ScrollSegs)>>
    /\ shared = NoStatics
    /\ clock = 0
    /\ hist = NoHist

NextScroll ==
    \/ clock + StepIntv <= MaxTimeScroll /\ DoUpdate(1, StepIntv)
    \/ \E n \in ScrollNumArgs :
          anim[1]._currentFunc = nullptr /\ DoScrollingUpBlocks(1, StepIntv, 2, 1, n)
    \/ \E n \in ScrollNumArgs :
          anim[1]._currentFunc = nullptr /\ DoScrollingDownBlocks(1, StepIntv, 2, 1, n)
    \/ \E l \in BOOLEAN : DoSetLogic(1, l)
    \/ DoToggleLogic(1)
    \/ DoInvertLogic(1)
    \/ DoResetLogic(1)

SpecScroll == InitScroll /\ [][NextScroll]_vars

(* C17: after scrollingUpBlocks or scrollingDownBlocks                     *)
(* isNonInvertingLogicAnim() is true, and a logic mutator called while the *)
(* scrolling runs changes no member of the engine and no pixel.            *)
C17_ScrollingIgnoresLogicCalls ==
    [][/\ (hist'.op = "start" /\ anim'[1]._currentFunc = "_scrollingBlocks")
             => isNonInvertingLogicAnim(anim'[1])
       /\ (hist'.op = "logic" /\ anim[1]._currentFunc = "_scrollingBlocks")
             => anim' = anim /\ pix' = pix]_vars

(* The scrolling start functions clear the non-inverting flag. *)
ScrollingIsInverting ==
    anim[1]._currentFunc = "_scrollingBlocks" => ~isNonInvertingLogicAnim(anim[1])


-----------------------------------------------------------------------------
(* Specification SpecReverse: a bar of any constructor, its direction and   *)
(* offsets changed at run time, and its mapping read back through          *)
(* debugSegmentMapping; nothing is lit.                                    *)
(* The segment count of the bar of examples/segmentCountDemo.              *)
Segs24 == 24

(* The segments whose address examples/segmentCountDemo spells out. *)
ExampleSegs == {8, 23}

InitReverse ==
    /\ bar \in BarsPreset \cup BarsMatrix \cup BarsSegs \cup BarsCustom
                \cup { BarSegs(DevsNum, d, Segs24, dir, 0) : d \in DevArgs, dir \in Directions }
    /\ leds = {}
    /\ res = NoRes
    /\ anim = << >>
    /\ pix = << >>
    /\ shared = NoStatics
    /\ clock = 0
    /\ hist = NoHist

NextReverse ==
    \/ \E dir \in Directions : setDirection(dir)
    \/ \E so \in SegOffsetArgs : setSegmentOffset(so)
    \/ \E ro \in RowOffsetArgs, co \in ColOffsetArgs : setMatrixOffset(ro, co)
    \/ \E i \in ProbeSegs \cup ExampleSegs : debugSegmentMapping(i)

SpecReverse == InitReverse /\ [][NextReverse]_vars

(* C18: direction reversal acts on the logical index before the segment    *)
(* offset and before any table lookup, and is an involution. For every bar *)
(* SpecReverse builds, with N its segment count and every i in [0, N):    *)
(* the address of i under REVERSE is the address of N-1-i under FORWARD;   *)
(* correcting an index twice gives the index back; and an engine of N     *)
(* segments, whatever its rendering direction, hands the bar the same      *)
(* index for pixel i after toggleDir() twice as before, one toggleDir()    *)
(* being undone by one more reversal. The engine is given by the two       *)
(* members _corrPixelToDir reads and the one toggleDir also writes.        *)
C18_ReversalBeforeLookupIsInvolution ==
    \A i \in 0 .. bar._segsNum - 1 :
       /\ GetMappedDevRowCol([bar EXCEPT !._direction = REVERSE], i)
            = GetMappedDevRowCol([bar EXCEPT !._direction = FORWARD],
                                 bar._segsNum - 1 - i)
       /\ DirCorrected([bar EXCEPT !._direction = REVERSE],
                       DirCorrected([bar EXCEPT !._direction = REVERSE], i)) = i
       /\ \A d \in BOOLEAN :
            /\ CorrPixelToDir(toggleDir(toggleDir(
                  [_segsNum |-> bar._segsNum, _animRenderDirIsReversed |-> d,
                   _animDirSet |-> FALSE])), i)
                 = CorrPixelToDir(
                  [_segsNum |-> bar._segsNum, _animRenderDirIsReversed |-> d], i)
            /\ CorrPixelToDir(
                  [_segsNum |-> bar._segsNum, _animRenderDirIsReversed |-> TRUE],
                  CorrPixelToDir(toggleDir(
                     [_segsNum |-> bar._segsNum, _animRenderDirIsReversed |-> d,
                      _animDirSet |-> FALSE]), i))
                 = CorrPixelToDir(
                  [_segsNum |-> bar._segsNum, _animRenderDirIsReversed |-> d], i)

(* A REVERSE bar in segment mode with a segment offset has resolved        *)
(* segment 5: to the address FORWARD gives to N-1-5, not to the one        *)
(* FORWARD gives to 5.                                                     *)
C18_Witness ==
    /\ ValidDevice
    /\ bar._direction = REVERSE
    /\ ~bar._isMatrixMapped
    /\ bar._segOffset > 0
    /\ res.seg = 5
    /\ res.addr = GetMappedDevRowCol(bar, 5)
    /\ res.addr = GetMappedDevRowCol([bar EXCEPT !._direction = FORWARD],
                                     bar._segsNum - 6)
    /\ res.addr # GetMappedDevRowCol([bar EXCEPT !._direction = FORWARD], 5)

(* The same on a custom table in RAM: segment 0 of a REVERSE bar is the    *)
(* table's last entry plus the offsets.                                    *)
ReverseCustomTableReadsLastEntry ==
    (ValidDevice /\ bar._customMapping # NoMapping /\ bar._direction = REVERSE
       /\ ~bar._userMappingIsProgmem)
        => GetMappedDevRowCol(bar, 0) =
              [dev |-> TableAt(bar, bar._segsNum - 1)[1],
               row |-> U8(TableAt(bar, bar._segsNum - 1)[2] + bar._rowOffset),
               col |-> U8(TableAt(bar, bar._segsNum - 1)[3] + bar._colOffset)]

-----------------------------------------------------------------------------
(* The index the auto mapping splits: the logical index corrected for      *)
(* direction, plus the segment offset in linear mode.                      *)
SplitIndex(b, i) ==
    (IF b._direction = REVERSE THEN b._segsNum - 1 - i ELSE i)
      + (IF b._isMatrixMapped THEN 0 ELSE b._segOffset)

(* The position of an index inside its device. *)
LocalIndex(index) == index % (MaxRows * MaxColumns)

MatrixSegmentFiveIsSecondColumn ==
    (ValidDevice /\ bar._customMapping = NoMapping /\ bar._isMatrixMapped
       /\ bar._rowsNum = 4 /\ bar._direction = FORWARD /\ res.seg = 5
       /\ res.addr = GetMappedDevRowCol(bar, 5))
        => res.addr = [dev |-> bar._devIdx, row |-> 1 + bar._rowOffset,
                       col |-> 1 + bar._colOffset]

-----------------------------------------------------------------------------
(* bar3 of examples/splitDriverDevicesBarMeter: the 4-row x 7-column       *)
(* preset on device 0 with row offset 6.                                   *)
Bar3 == BarPreset(DevsNum, 0, "BL28_3005SK", FORWARD, 6, 0)

(* C20: rows of a matrix bar span devices. Every one of the 28 segments of *)
(* bar3 resolves to a row below 8: rows 6-7 of device 0 for the bar's rows *)
(* 0-1 and rows 0-1 of device 1 for the bar's rows 2-3, in columns 0-6.    *)
C20_RowsSpanDevices ==
    bar = Bar3
        => \A i \in 0 .. bar._segsNum - 1 :
              /\ GetMappedDevRowCol(bar, i).row < MaxRows
              /\ GetMappedDevRowCol(bar, i) =
                    [dev |-> IF i % 4 < 2 THEN 0 ELSE 1,
                     row |-> (6 + (i % 4)) % MaxRows,
                     col |-> i \div 4]

(* What bar3 resolves to instead: every segment stays on device 0, the     *)
(* bar's rows 2-3 at rows 8-9.                                             *)
Bar3StaysOnDeviceZero ==
    bar = Bar3
        => \A i \in 0 .. bar._segsNum - 1 :
              GetMappedDevRowCol(bar, i) =
                 [dev |-> 0, row |-> 6 + (i % 4), col |-> i \div 4]

(* bar3 has read back segment 27 as row 9 of device 0. *)
Bar3ReadsRowNine ==
    /\ bar = Bar3
    /\ res = [seg |-> 27, addr |-> [dev |-> 0, row |-> 9, col |-> 6]]

-----------------------------------------------------------------------------
(* Specification SpecReject: a bar of any constructor, on the driver of    *)
(* the example or on a full chain of MaxChain devices, built on a base     *)
(* device index the driver has or has not; pixels are set, read and        *)
(* cleared at indices inside and outside the bar.                          *)

(* A chain with every device a base index can name. *)
MaxChain == MaxDevIdx + 1

DriverSizes == {DevsNum, MaxChain}

(* Base device indices: the first device, and indices no driver of         *)
(* DriverSizes has.                                                        *)
BaseDevArgs == {0, 8, 255}

(* Segment arguments: inside every bar built, at the count of the 24- and  *)
(* 28-segment bars, and the last 8-bit value.                              *)
RejectSegs == {5, 24, 28, 255}

(* A call on the bar as hist keeps it: the function, its segment argument  *)
(* (mark) and the value it returned (ret).                                 *)
BarCall(op, segment, ret) ==
    [NoHist EXCEPT !.op = op, !.mark = segment, !.ret = ret]

(* setPixel(segment, state), the call kept in hist. *)
setPixelCall(segment, state) ==
    /\ BarSetPixel(segment, state)
    /\ hist' = BarCall("setPixel", segment, FALSE)
    /\ UNCHANGED <<anim, pix, shared, clock>>

(* getPixelState(segment): 0 at once when segment >= _segsNum, else the    *)
(* driver's getLed at the resolved address.                                *)
getPixelState(segment) ==
    /\ IF AcceptedSegment(bar, segment) < 0
       THEN /\ hist' = BarCall("getPixelState", segment, FALSE)
            /\ UNCHANGED res
       ELSE /\ res' = [seg |-> AcceptedSegment(bar, segment),
                       addr |-> GetMappedDevRowCol(bar, AcceptedSegment(bar, segment))]
            /\ hist' = BarCall("getPixelState", segment,
                    GetMappedDevRowCol(bar, AcceptedSegment(bar, segment)) \in leds)
    /\ UNCHANGED <<bar, leds, anim, pix, shared, clock>>

(* clear(): setPixel(i, false) for every i below _segsNum. *)
clear ==
    /\ leds' = leds \ { GetMappedDevRowCol(bar, i) : i \in 0 .. bar._segsNum - 1 }
    /\ res' = IF bar._segsNum = 0 THEN res
              ELSE [seg |-> bar._segsNum - 1,
                    addr |-> GetMappedDevRowCol(bar, bar._segsNum - 1)]
    /\ hist' = BarCall("clear", 0, FALSE)
    /\ UNCHANGED <<bar, anim, pix, shared, clock>>

InitReject ==
    /\ bar \in { BarPreset(n, d, "BL28_3005SK", FORWARD, 0, 0) :
                   n \in DriverSizes, d \in BaseDevArgs }
          \cup { BarMatrix(n, d, 4, 2, FORWARD, 0, 0, g) :
                   n \in DriverSizes, d \in BaseDevArgs, g \in GarbageBytes }
          \cup { BarSegs(n, d, Segs24, FORWARD, 0) :
                   n \in DriverSizes, d \in BaseDevArgs }
          \cup { BarCustom(n, d, TableA, FORWARD, pm, 0, 0) :
                   n \in DriverSizes, d \in BaseDevArgs, pm \in BOOLEAN }
    /\ leds = {}
    /\ res = NoRes
    /\ anim = << >>
    /\ pix = << >>
    /\ shared = NoStatics
    /\ clock = 0
    /\ hist = NoHist

NextReject ==
    \/ \E dir \in Directions : setDirection(dir)
    \/ \E so \in {0, 8} : setSegmentOffset(so)
    \/ \E co \in ColOffsetArgs : setMatrixOffset(0, co)
    \/ \E i \in RejectSegs, st \in {0, 1} :
          /\ (st = 1 => Cardinality(leds) < MaxLit)
          /\ setPixelCall(i, st)
    \/ \E i \in RejectSegs : getPixelState(i)
    \/ clear

SpecReject == InitReject /\ [][NextReject]_vars

(* The bar was built on a base device index the driver does not have. *)
BaseDeviceMissing == bar.devIdx >= bar.devsNum

(* C21: a bar built, by any constructor, on a base device index that is    *)
(* not less than the driver's device count has zero segments, and          *)
(* setPixel, clear and getPixelState on it never reach the driver: no LED  *)
(* is lit, no address is resolved, and getPixelState returns 0.            *)
C21_MissingDeviceIsDegenerate ==
    BaseDeviceMissing
        => /\ bar._segsNum = 0
           /\ leds = {}
           /\ res = NoRes
           /\ ~hist.ret

(* The same on a driver of fewer than MaxChain devices. *)
MissingDeviceIsDegenerateOnShortChain ==
    (BaseDeviceMissing /\ bar.devsNum < MaxChain)
        => /\ bar._segsNum = 0
           /\ leds = {}
           /\ res = NoRes
           /\ ~hist.ret

(* On a chain of MaxChain devices a base index past the chain is held to   *)
(* the last device, and the bar is built there in full.                    *)
PastFullChainBuildsOnLastDevice ==
    (BaseDeviceMissing /\ bar.devsNum = MaxChain)
        => /\ bar._devIdx = MaxChain - 1
           /\ (bar._customMapping = NoMapping /\ bar._isMatrixMapped
                  /\ bar._rowsNum = 4 /\ bar._colsNum = 2)
              \/ bar._segsNum > 0

(* A pixel of such a bar was lit on the last device. *)
PastFullChainLightsLastDevice ==
    /\ BaseDeviceMissing
    /\ bar.devIdx = 255
    /\ hist.op = "setPixel"
    /\ \E a \in leds : a.dev = MaxChain - 1

-----------------------------------------------------------------------------
(* C22: an index at or past the segment count is rejected, never wrapped:  *)
(* setPixel with such an index leaves the driver's LEDs as they were and   *)
(* resolves no address, and getPixelState with such an index returns 0     *)
(* without asking the driver, whatever the direction and the offsets.      *)
C22_OutOfRangeIndexRejected ==
    [][ /\ (hist'.op = "setPixel" /\ hist'.mark >= bar._segsNum)
            => (leds' = leds /\ res' = res)
        /\ (hist'.op = "getPixelState" /\ hist'.mark >= bar._segsNum)
            => (~hist'.ret /\ leds' = leds /\ res' = res) ]_vars

(* A reversed 24-segment bar with a segment offset holds a lit pixel and   *)
(* has just turned away setPixel at an index past its count.               *)
C22_Witness ==
    /\ bar._segsNum = Segs24
    /\ bar._direction = REVERSE
    /\ bar._segOffset > 0
    /\ hist.op = "setPixel"
    /\ hist.mark >= bar._segsNum
    /\ leds # {}

(* getPixelState of a lit pixel returns 1: the 0 of a rejected index is    *)
(* not the only value the function gives.                                  *)
LitPixelReadsOne ==
    /\ hist.op = "getPixelState"
    /\ hist.mark < bar._segsNum
    /\ hist.ret

-----------------------------------------------------------------------------
(* C23: animPendingLoop() is a one-shot notification. A cycle completed    *)
(* with looping enabled and no skip request pending sets the just-looped   *)
(* mark; nothing but a completed cycle sets it, and nothing but a          *)
(* completed cycle or a call of animPendingLoop() clears it. A call with   *)
(* no skip request pending returns the mark and clears it, so the first    *)
(* call after the cycle returns true and every further call returns false  *)
(* until another cycle completes; a call with a skip request pending       *)
(* returns false and clears the request and nothing else.                  *)
C23_PendingLoopIsOneShot ==
    [][ /\ (hist'.op = "update" /\ hist'.done /\ anim'[1]._loop
              /\ ~anim'[1]._skipPending)
            => anim'[1]._isLoopingNow
        /\ (anim'[1]._isLoopingNow /\ ~anim[1]._isLoopingNow)
            => (hist'.op = "update" /\ hist'.done)
        /\ (anim[1]._isLoopingNow /\ ~anim'[1]._isLoopingNow)
            => \/ hist'.op = "update" /\ hist'.done
               \/ hist'.op = "query" /\ hist'.ret
        /\ (hist'.op = "query" /\ anim[1]._skipPending)
            => /\ ~hist'.ret
               /\ anim'[1] = [anim[1] EXCEPT !._skipPending = FALSE]
               /\ pix' = pix
        /\ (hist'.op = "query" /\ ~anim[1]._skipPending)
            => /\ hist'.ret = anim[1]._isLoopingNow
               /\ anim'[1] = [anim[1] EXCEPT !._isLoopingNow = FALSE]
               /\ pix' = pix ]_vars

(* A looping fill is still selected and running, and animPendingLoop() has *)
(* just returned true and cleared the mark.                                *)
C23_Witness ==
    /\ hist.op = "query"
    /\ hist.ret
    /\ anim[1]._loop
    /\ anim[1]._currentFunc = "_fillOrEmpty"
    /\ anim[1]._isRunning
    /\ ~anim[1]._isLoopingNow

(* A call has consumed a skip request while the mark of an earlier cycle   *)
(* was set: it returned false and the mark is still there.                 *)
SkipConsumedMarkKept ==
    /\ hist.op = "query"
    /\ ~hist.ret
    /\ anim[1]._isLoopingNow
    /\ ~anim[1]._skipPending
    /\ anim[1]._currentFunc = "_bounceFill"

-----------------------------------------------------------------------------
(* Specification SpecContinuous: one engine on a bar of ContSegs segments  *)
(* runs the beat pulse, from a constant or through a pointer, or a signal  *)
(* follower on valid signal pointers; update() is called at short and at   *)
(* long distances, looping is switched on and off, and stop() is called.   *)
(* The algorithm is started once.                                          *)
ContSegs == 4

(* update() is called until the clock reaches MaxTimeCont. *)
MaxTimeCont == 360

(* Milliseconds between two update() calls: below the beat and the peak   *)
(* hold time, and above the beat of 255 bpm.                               *)
ContDeltas == {60, 240}

(* bpm of beatPulse(bpm): the default, and the fastest beat. *)
BpmArgs == {116, 255}

(* The pointer to the program's bpm variable. *)
BpmPtrArgs == {nullptr, "bpm"}

InitContinuous ==
    /\ InitIdleResolver
    /\ anim = <<EngineDefaults(ContSegs)>>
    /\ pix = <<Clear(ContSegs)>>
    /\ shared = NoStatics
    /\ clock = 0
    /\ hist = NoHist

NextContinuous ==
    \/ \E b \in BpmArgs : hist.op = "none" /\ DoBeatPulse(1, b)
    \/ \E b \in BpmPtrArgs : hist.op = "none" /\ DoBeatPulsePtr(1, b)
    \/ /\ hist.op = "none"
       /\ DoFollowSignalSmooth(1, "sig1", FollowIntv, FollowMaxMap, FollowFactor)
    \/ /\ hist.op = "none"
       /\ DoFollowSignalWithPointer(1, "sig1", FollowIntv, FollowMaxMap, FollowFactor)
    \/ \E p2 \in Sig2Args :
          /\ hist.op = "none"
          /\ DoFollowDualSignalFromCenter(1, "sig1", FollowIntv, p2, FollowMaxMap,
                                          FollowFactor)
    \/ /\ hist.op = "none"
       /\ DoFollowSignalFloatingPeak(1, "sig1", PeakHold, FollowIntv, FollowMaxMap,
                                     FollowFactor)
    \/ \E dt \in ContDeltas : clock + dt <= MaxTimeCont /\ DoUpdate(1, dt)
    \/ DoLoop(1)
    \/ DoNoLoop(1)
    \/ DoStop(1)

SpecContinuous == InitContinuous /\ [][NextContinuous]_vars

(* The engine runs a continuous algorithm: the beat pulse, or a follower   *)
(* whose (first) signal pointer is valid.                                  *)
RunsContinuous(a) ==
    /\ isRunning(a)
    /\ \/ a._currentFunc = "_beatPulse"
       \/ a._currentFunc \in Followers /\ a._sigPtr1 # nullptr

(* C24: a continuous algorithm never completes on its own. While the beat  *)
(* pulse or a follower with a valid signal pointer runs, no update()       *)
(* reports completion and, looping enabled or not, every call but stop()   *)
(* leaves the engine running with the same algorithm selected.             *)
C24_ContinuousNeverCompletes ==
    [][ (RunsContinuous(anim[1]) /\ hist'.op # "stop")
          => /\ ~hist'.done
             /\ isRunning(anim'[1])
             /\ anim'[1]._currentFunc = anim[1]._currentFunc
             /\ (hist'.op = "update" => hist'.ret) ]_vars

(* The beat pulse, with looping enabled, is past its first beat at the end *)
(* of the clock.                                                           *)
C24_Witness ==
    /\ RunsContinuous(anim[1])
    /\ anim[1]._currentFunc = "_beatPulse"
    /\ isLoopEnabled(anim[1])
    /\ hist.op = "update"
    /\ shared.isPeak
    /\ clock = MaxTimeCont
    /\ anim[1]._lastUpdate1 > 0

(* A follower has run to the end of the clock with looping disabled. *)
FollowerStillRunsAtEnd ==
    /\ RunsContinuous(anim[1])
    /\ anim[1]._currentFunc = "_followSignalFloatingPeak"
    /\ ~isLoopEnabled(anim[1])
    /\ hist.op = "update"
    /\ clock = MaxTimeCont

(* The beat pulse through a pointer has divided by zero. *)
BeatDividedByZero ==
    anim[1]._currentFunc = "_beatPulse" /\ anim[1].divByZero

-----------------------------------------------------------------------------
(* Specification SpecSwitch: a fresh engine on a bar of SwitchSegs         *)
(* segments runs one mirrored or scrolling block animation; update() is    *)
(* called with timestamps 0 or StepIntv ms apart, and the logic is         *)
(* inverted or toggled at any time between two calls.                      *)

(* Segments of the bar in SpecSwitch. *)
SwitchSegs == 6

(* update() is called MaxSwitchCalls times in SpecSwitch. *)
MaxSwitchCalls == 9

(* blockLength and numBlocks of the start function (0: continuous). *)
SwitchLengthArgs == {2, 130}

SwitchNumArgs == {0, 2}

InitSwitch ==
    /\ InitIdleResolver
    /\ anim = <<EngineDefaults(SwitchSegs)>>
    /\ pix = <<Clear(SwitchSegs)>>
    /\ shared = NoStatics
    /\ clock = 0
    /\ hist = [NoHist EXCEPT !.calls = 0]

NextSwitch ==
    \/ \E l \in SwitchLengthArgs, n \in SwitchNumArgs :
          hist.op = "none" /\ DoCollidingBlocks(1, StepIntv, l, 1, n)
    \/ \E l \in SwitchLengthArgs, n \in SwitchNumArgs :
          hist.op = "none" /\ DoExplodingBlocks(1, StepIntv, l, 1, n)
    \/ \E l \in SwitchLengthArgs, n \in SwitchNumArgs :
          hist.op = "none" /\ DoScrollingUpBlocks(1, StepIntv, l, 1, n)
    \/ hist.op # "none" /\ isRunning(anim[1]) /\ DoInvertLogic(1)
    \/ hist.op # "none" /\ isRunning(anim[1]) /\ DoToggleLogic(1)
    \/ \E dt \in {0, StepIntv} :
          /\ hist.op # "none" /\ hist.calls < MaxSwitchCalls /\ isRunning(anim[1])
          /\ DoUpdate(1, dt)

SpecSwitch == InitSwitch /\ [][NextSwitch]_vars

(* The range handed to _calculateSwitchedEmitTickCounter: half the bar by  *)
(* _mirrorBlocks, the whole bar by _scrollingBlocks.                       *)
VisibleRange(a) ==
    IF a._currentFunc = "_mirrorBlocks" THEN a._segsNum \div 2 ELSE a._segsNum

(* The next update() of engine a takes the logic-switch branch of its      *)
(* block algorithm.                                                        *)
SwitchPending(a) ==
    /\ a._currentFunc \in {"_mirrorBlocks", "_scrollingBlocks"}
    /\ ~UpdateIsNoOp(a)
    /\ ~a._init
    /\ Len(a._blocks) >= a._param4
    /\ a._prevAnimRenderLogic # a._animRenderLogicIsInverted

(* An update() in which engine 1 handled a live logic switch. *)
SwitchStep == SwitchPending(anim[1]) /\ hist'.op = "update" /\ hist' # hist

(* The interval step ran in the update() that leads to the next state. *)
SteppedNow == clock' - anim[1]._lastUpdate1 >= anim[1]._updateIntv1

(* C26, as the specification words it: on a live logic inversion the      *)
(* position pos of every active block becomes                              *)
(* visibleRange - pos + (blockLength - 1) (and one more when the interval  *)
(* step of the same update() has moved the block).                         *)
C26_SwitchedPositionAsWorded ==
    [][SwitchStep =>
         \A i \in 1 .. Len(anim[1]._blocks) :
            anim[1]._blocks[i].active =>
               anim'[1]._blocks[i].position =
                  I8(I8(VisibleRange(anim[1]) - anim[1]._blocks[i].position
                          + (anim[1]._param1 - 1))
                     + (IF SteppedNow THEN 1 ELSE 0))]_vars

(* C26, amended: on a live logic inversion the position pos of every      *)
(* active block is replaced by                                             *)
(* (visibleRange - 1) - pos + (blockLength - 1), taken as a signed 8-bit   *)
(* value, visibleRange being half the bar for mirrored emission and the    *)
(* whole bar for scrolling blocks; a block whose new position is negative  *)
(* is deactivated, the others stay in flight and are moved one step on by  *)
(* the interval step of the same update().                                 *)
C26_SwitchedPosition ==
    [][SwitchStep =>
         \A i \in 1 .. Len(anim[1]._blocks) :
            LET b == anim[1]._blocks[i]
                swp == I8((VisibleRange(anim[1]) - 1) - b.position
                            + (anim[1]._param1 - 1))
            IN  b.active =>
                  /\ (swp >= 0) =>
                        anim'[1]._blocks[i].position
                           = I8(swp + (IF SteppedNow THEN 1 ELSE 0))
                  /\ (swp >= 0 /\ ~SteppedNow) => anim'[1]._blocks[i].active
                  /\ (swp < 0 /\ ~SteppedNow) =>
                        anim'[1]._blocks[i] = [position |-> swp, active |-> FALSE]]_vars

(* C26 witness: a block in flight at position 1 of a running scrolling     *)
(* animation was re-projected to 5 (SwitchSegs - 1 - 1 + 1) by an update() *)
(* whose interval had not elapsed.                                         *)
C26_Witness ==
    /\ hist.op = "update"
    /\ anim[1]._currentFunc = "_scrollingBlocks"
    /\ anim[1]._param1 = 2
    /\ anim[1]._animLogicSet
    /\ anim[1]._prevAnimRenderLogic = anim[1]._animRenderLogicIsInverted
    /\ anim[1]._animRenderLogicIsInverted
    /\ \E i \in 1 .. Len(anim[1]._blocks) :
          anim[1]._blocks[i] = [position |-> SwitchSegs - 1, active |-> TRUE]
    /\ pix[1] = [k \in 0 .. SwitchSegs - 1 |-> k \in {0, 1}]

(* The segments one block of engine a lights with its head at `position`. *)
LitOf(a, position) ==
    IF a._currentFunc = "_mirrorBlocks" THEN MirrorLit(a, position)
    ELSE ScrollLit(a, position)

(* Engine a drawing with the logic it had before the pending switch. *)
WithOldLogic(a) == [a EXCEPT !._animRenderLogicIsInverted = a._prevAnimRenderLogic]

(* Slot i of engine 1's pool was free and holds a block in the next state. *)
NewlyEmitted(i) ==
    /\ i \in DOMAIN anim[1]._blocks /\ i \in DOMAIN anim'[1]._blocks
    /\ ~anim[1]._blocks[i].active
    /\ anim'[1]._blocks[i].active

(* C25: a live logic inversion during a mirrored or scrolling block        *)
(* animation is seamless. Every active block is still active after the     *)
(* switch and, drawn at its re-projected position under the new logic,     *)
(* lights the segments it lit at its old position under the old logic; a   *)
(* block emitted by an update() enters at the end the logic then in force  *)
(* emits from (segment 0 when not inverted, the other end when inverted).  *)
C25_SwitchIsSeamless ==
    [][/\ (SwitchStep /\ ~SteppedNow) =>
            \A i \in 1 .. Len(anim[1]._blocks) :
               anim[1]._blocks[i].active =>
                  /\ anim'[1]._blocks[i].active
                  /\ LitOf(anim'[1], anim'[1]._blocks[i].position)
                        = LitOf(WithOldLogic(anim[1]), anim[1]._blocks[i].position)
       /\ (hist'.op = "update" /\ hist' # hist /\ ~anim'[1].poolFault) =>
            \A i \in 1 .. Len(anim[1]._blocks) :
               NewlyEmitted(i) =>
                  /\ anim'[1]._blocks[i].position = 0
                  /\ \A k \in LitOf(anim'[1], 0) : pix'[1][k]
                  /\ (0 \in LitOf(anim'[1], 0)) = ~anim'[1]._animRenderLogicIsInverted]_vars

(* The re-projected positions of engine a fit a signed 8-bit value. *)
SwitchFitsInt8(a) == (VisibleRange(a) - 1) + (a._param1 - 1) <= 127

(* Where the re-projection fits 8 bits the switch is seamless. *)
SwitchSeamlessWhenInRange ==
    [][(SwitchStep /\ ~SteppedNow /\ SwitchFitsInt8(anim[1])) =>
            \A i \in 1 .. Len(anim[1]._blocks) :
               anim[1]._blocks[i].active =>
                  /\ anim'[1]._blocks[i].active
                  /\ LitOf(anim'[1], anim'[1]._blocks[i].position)
                        = LitOf(WithOldLogic(anim[1]), anim[1]._blocks[i].position)]_vars

(* A block of 130 segments in flight at position 2 was dropped by a logic  *)
(* switch: its slot holds the wrapped position and is free.                *)
LongBlockDroppedBySwitch ==
    /\ hist.op = "update"
    /\ anim[1]._currentFunc = "_mirrorBlocks"
    /\ anim[1]._param1 = 130
    /\ \E i \in 1 .. Len(anim[1]._blocks) :
          anim[1]._blocks[i] = [position |-> I8(2 - 2 + 129), active |-> FALSE]
    /\ \A k \in 0 .. SwitchSegs - 1 : pix[1][k]

(* C27: after a live logic inversion in a block animation with unlimited   *)
(* blocks, the recomputed emission cooldown (an 8-bit counter) lies        *)
(* between 0 and blockLength + blockSpacing - 1; when the interval step of *)
(* the same update() emits or counts down, it is not larger either.        *)
C27_SwitchedCooldownInRange ==
    [][(SwitchStep /\ anim[1]._param3 = 0) =>
          /\ anim'[1]._counter2 >= 0
          /\ anim'[1]._counter2 <= anim[1]._param1 + anim[1]._param2 - 1]_vars

(* A scrolling animation with blocks of 2 and a spacing of 1 waits 252     *)
(* interval steps for its next block after a logic switch: the cooldown    *)
(* 2 - 6 wrapped around in the 8-bit counter.                              *)
CooldownWrapped ==
    /\ hist.op = "update"
    /\ anim[1]._currentFunc = "_scrollingBlocks"
    /\ anim[1]._param1 = 2
    /\ anim[1]._param3 = 0
    /\ anim[1]._counter2 = 256 + (2 - SwitchSegs)
    /\ \E i \in 1 .. Len(anim[1]._blocks) :
          anim[1]._blocks[i] = [position |-> SwitchSegs, active |-> TRUE]

(* The blocks engine a emitted since its initialisation: on a fresh engine *)
(* emitIndex starts at 0 and _emitBlock advances it by one, modulo         *)
(* maxBlocks, with every block it activates, so it is the number emitted   *)
(* as long as that number is below maxBlocks.                              *)
EmittedSinceInit(a) == a._param5

(* Engine 1 has just reported the completion of a block animation that was *)
(* asked for a finite number of blocks, below the pool size, with emission *)
(* left enabled.                                                           *)
FiniteBlocksCompleted ==
    /\ hist.op = "update" /\ hist.done
    /\ anim[1]._param3 > 0
    /\ anim[1]._param3 < anim[1]._param4
    /\ anim[1]._emittingBlocksEnabled
    /\ ~anim[1].poolFault

(* C28: a block animation with a finite requested count N > 0 and emission *)
(* left enabled reports completion only after exactly N blocks have been   *)
(* emitted since its initialisation and no block remains active, also in   *)
(* runs during which the logic is inverted.                                *)
C28_CompletesAfterAllEmitted ==
    FiniteBlocksCompleted =>
       /\ EmittedSinceInit(anim[1]) = anim[1]._param3
       /\ ~AnyActive(anim[1])

(* In runs without a logic call, completion comes after exactly N blocks.  *)
CompletesAfterAllEmittedWithoutSwitch ==
    (FiniteBlocksCompleted /\ ~anim[1]._animLogicSet) =>
       /\ EmittedSinceInit(anim[1]) = anim[1]._param3
       /\ ~AnyActive(anim[1])

(* A run without a logic call that completed after its two blocks. *)
CompletedTwoBlocksWithoutSwitch ==
    /\ FiniteBlocksCompleted /\ ~anim[1]._animLogicSet
    /\ EmittedSinceInit(anim[1]) = 2

(* A run that completed without having emitted a single block: the logic   *)
(* was inverted before the first block was due.                            *)
CompletedWithoutAnyBlock ==
    /\ FiniteBlocksCompleted
    /\ EmittedSinceInit(anim[1]) = 0

-----------------------------------------------------------------------------
(* Specification SpecStack: a fresh engine on a bar of StackSegs segments  *)
(* runs one block animation (stacking, unstacking, mirrored or scrolling); *)
(* update() is called every StepIntv ms, and stopBlockEmission() and       *)
(* resumeBlockEmission() are called at any time between two updates.       *)

(* Segments of the bar in SpecStack. *)
StackSegs == 4

(* update() is called MaxStackCalls times in SpecStack. *)
MaxStackCalls == 14

(* blockSpacing of the start function. *)
StackSpacingArgs == {0, 1}

InitStack ==
    /\ InitIdleResolver
    /\ anim = <<EngineDefaults(StackSegs)>>
    /\ pix = <<Clear(StackSegs)>>
    /\ shared = NoStatics
    /\ clock = 0
    /\ hist = [NoHist EXCEPT !.calls = 0]

NextStack ==
    \/ \E sp \in StackSpacingArgs :
          hist.op = "none" /\ DoDownStackingBlocks(1, StepIntv, 1, sp)
    \/ \E sp \in StackSpacingArgs :
          hist.op = "none" /\ DoUpUnstackingBlocks(1, StepIntv, 1, sp)
    \/ \E sp \in StackSpacingArgs :
          hist.op = "none" /\ DoUpStackingBlocks(1, StepIntv, 1, sp)
    \/ \E sp \in StackSpacingArgs :
          hist.op = "none" /\ DoDownUnstackingBlocks(1, StepIntv, 1, sp)
    \/ hist.op = "none" /\ DoCollidingBlocks(1, StepIntv, 1, 1, 0)
    \/ hist.op = "none" /\ DoScrollingUpBlocks(1, StepIntv, 1, 1, 0)
    \/ hist.op # "none" /\ isRunning(anim[1]) /\ DoStopBlockEmission(1)
    \/ hist.op # "none" /\ isRunning(anim[1]) /\ DoResumeBlockEmission(1)
    \/ hist.op # "none" /\ hist.calls < MaxStackCalls /\ isRunning(anim[1])
          /\ DoUpdate(1, StepIntv)

SpecStack == InitStack /\ [][NextStack]_vars

(* An update() of engine 1 that runs a step, other than the setup pass, of *)
(* one of the algorithms in fs while block emission is disabled.           *)
DisabledStep(fs) ==
    /\ hist'.op = "update" /\ hist' # hist
    /\ anim[1]._currentFunc \in fs
    /\ ~UpdateIsNoOp(anim[1])
    /\ ~anim[1]._init
    /\ ~anim[1]._emittingBlocksEnabled
    /\ ~anim'[1].poolFault

(* During such a step no free slot receives a block, and a block in flight *)
(* is moved when the interval has elapsed.                                 *)
NoEmissionWhileDisabled(fs) ==
    DisabledStep(fs) =>
       \A i \in 1 .. Len(anim[1]._blocks) :
          /\ ~NewlyEmitted(i)
          /\ (SteppedNow /\ anim[1]._blocks[i].active) =>
                anim'[1]._blocks[i].position # anim[1]._blocks[i].position

(* C29: while block emission is disabled no block-based animation,         *)
(* mirrored, scrolling, or stacking/unstacking, activates a new block, and *)
(* the blocks already active keep moving.                                  *)
C29_NoEmissionWhileDisabled ==
    [][NoEmissionWhileDisabled({"_mirrorBlocks", "_scrollingBlocks",
                                "_stackingBlocks"})]_vars

(* The mirrored and the scrolling algorithms do honour the flag. *)
MirrorAndScrollHonourEmissionStop ==
    [][NoEmissionWhileDisabled({"_mirrorBlocks", "_scrollingBlocks"})]_vars

(* A stacking animation dropped a new block from the top two or more       *)
(* updates after stopBlockEmission(), emission still disabled.             *)
StackEmitsWhileDisabled ==
    /\ hist.op = "update"
    /\ hist.ctl = "stopEmission"
    /\ hist.calls >= hist.mark + 2
    /\ anim[1]._currentFunc = "_stackingBlocks"
    /\ ~anim[1]._animRenderLogicIsInverted
    /\ ~anim[1]._emittingBlocksEnabled
    /\ anim[1]._blocks[1] = [position |-> StackSegs - 1, active |-> TRUE]

(* A stacking animation ran to completion although emission was disabled   *)
(* before its first block.                                                 *)
StackCompletesWhileDisabled ==
    /\ hist.op = "update" /\ hist.done
    /\ hist.ctl = "stopEmission" /\ hist.mark <= 1
    /\ ~anim[1]._emittingBlocksEnabled
    /\ \A k \in 0 .. StackSegs - 1 : pix[1][k]

(* An update() in which the fill/empty algorithm of engine 1, started by   *)
(* one of the fill or empty start functions, reported completion with      *)
(* looping enabled.                                                        *)
LoopingFillCompleted ==
    /\ hist'.op = "update" /\ hist' # hist /\ hist'.done
    /\ anim[1]._currentFunc = "_fillOrEmpty"
    /\ anim[1]._loop

(* C30: with looping enabled, whenever a fill/empty animation reports      *)
(* completion the engine keeps running it and is armed for                 *)
(* re-initialisation, so that the next update() redraws the initial frame  *)
(* and the fill runs again, whichever animation ran before and however it  *)
(* ended.                                                                  *)
C30_LoopingFillRestarts ==
    [][LoopingFillCompleted =>
          /\ anim'[1]._isRunning
          /\ anim'[1]._currentFunc = "_fillOrEmpty"
          /\ anim'[1]._init
          /\ anim'[1]._isLoopingNow]_vars

(* Without a skip request pending, a looping fill does restart. *)
LoopingFillRestartsWithoutSkip ==
    [][(LoopingFillCompleted /\ ~anim[1]._skipPending) =>
          /\ anim'[1]._isRunning
          /\ anim'[1]._currentFunc = "_fillOrEmpty"
          /\ anim'[1]._init
          /\ anim'[1]._isLoopingNow]_vars

(* A looping fill that has reported completion and was not restarted: the  *)
(* skip request left by a bounce is still pending.                         *)
LoopingFillStuck ==
    /\ hist.op = "update" /\ hist.done
    /\ anim[1]._currentFunc = "_fillOrEmpty"
    /\ anim[1]._loop /\ anim[1]._isRunning
    /\ anim[1]._skipPending
    /\ ~anim[1]._init
    /\ ~anim[1]._isLoopingNow

(* The same after a fill that lit the whole bar. *)
LoopingFillStuckOnFullBar ==
    /\ LoopingFillStuck
    /\ ~anim[1]._animRenderLogicIsInverted
    /\ \A k \in 0 .. SegsNum - 1 : pix[1][k]

(* Once stuck, no later update() re-initialises the fill or changes a      *)
(* pixel.                                                                  *)
StuckFillNeverRestarts ==
    [][(LoopingFillStuck /\ hist'.op = "update" /\ hist' # hist)
         => (~anim'[1]._init /\ pix' = pix)]_vars

-----------------------------------------------------------------------------
(* Specification SpecPool: one engine on a bar of PoolSegs segments; block *)
(* animations and a fill are started in any order, with or without         *)
(* animInit(), stop(), toggleLogic() and update() between them.            *)

(* Segments of the bar in SpecPool. *)
PoolSegs == 6

(* update() is called until the clock reaches MaxTimePool. *)
MaxTimePool == 10

(* blockLength of the start functions. *)
PoolLengthArgs == {1, 2}

InitPool ==
    /\ InitIdleResolver
    /\ anim = <<EngineDefaults(PoolSegs)>>
    /\ pix = <<Clear(PoolSegs)>>
    /\ shared = NoStatics
    /\ clock = 0
    /\ hist = NoHist

NextPool ==
    \/ \E l \in PoolLengthArgs : DoCollidingBlocks(1, StepIntv, l, 1, 0)
    \/ \E l \in PoolLengthArgs : DoScrollingUpBlocks(1, StepIntv, l, 1, 0)
    \/ \E l \in PoolLengthArgs : DoDownStackingBlocks(1, StepIntv, l, 0)
    \/ DoFillUpIntv(1, StepIntv, 100, 0)
    \/ DoAnimInit(1)
    \/ DoStop(1)
    \/ DoToggleLogic(1)
    \/ clock + StepIntv <= MaxTimePool /\ DoUpdate(1, StepIntv)

SpecPool == InitPool /\ [][NextPool]_vars

(* The step of a block algorithm that update(syncTime) runs on engine a    *)
(* reads or writes slots 0 .. maxBlocks - 1 of the pool.                   *)
PoolTouched(a, syncTime) ==
    /\ a._currentFunc \in {"_mirrorBlocks", "_scrollingBlocks", "_stackingBlocks"}
    /\ ~UpdateIsNoOp(a)
    /\ ~a._init
    /\ IF a._currentFunc = "_stackingBlocks"
       THEN IntervalElapsed([a EXCEPT !._currentTime = syncTime])
       ELSE TouchesPool([a EXCEPT !._currentTime = syncTime])

(* C31: whenever a step of a block animation reads or writes the block     *)
(* pool, the pool is allocated with a capacity equal to the current        *)
(* maxBlocks, and no slot outside the pool is accessed.                    *)
C31_PoolMatchesMaxBlocks ==
    [][(hist'.op = "update" /\ hist' # hist /\ PoolTouched(anim[1], clock')) =>
          /\ anim[1]._blocks # NoBlocks
          /\ Len(anim[1]._blocks) = anim[1]._param4
          /\ ~anim'[1].poolFault]_vars

(* A scrolling step ran over a pool of three blocks, allocated by an       *)
(* earlier mirrored animation, with maxBlocks above three.                 *)
PoolOverrun ==
    /\ anim[1].poolFault
    /\ anim[1]._currentFunc = "_scrollingBlocks"
    /\ Len(anim[1]._blocks) = 3
    /\ anim[1]._param4 > 3

(* A block step ran on an engine that never allocated a pool. *)
NullPoolDereferenced ==
    /\ anim[1].poolFault
    /\ anim[1]._blocks = NoBlocks

(* A start function preceded by animInit() on an idle engine gets a pool   *)
(* of its own size at the setup pass.                                      *)
SetupPassSizesPool ==
    [][(hist'.op = "update" /\ hist' # hist /\ anim[1]._init /\ ~UpdateIsNoOp(anim[1])
          /\ anim[1]._currentFunc \in {"_mirrorBlocks", "_scrollingBlocks",
                                        "_stackingBlocks"})
         => Len(anim'[1]._blocks) = anim'[1]._param4]_vars

-----------------------------------------------------------------------------
(* Specification SpecFillN: a fresh engine on a forward bar whose length   *)
(* is one of FillLengths, fillUpIntv(intv, 100, 0) once, looping disabled, *)
(* then update() every StepIntv ms. hist.calls counts the update() calls.  *)

(* The bar lengths tried: both ends of 1 .. 255 and the lengths around the *)
(* largest value of an int8_t tracker.                                     *)
FillLengths == {1, 2, 127, 128, 129, 200, 255}

(* update() is called MaxFillCalls times in SpecFillN. *)
MaxFillCalls == 270

InitFillN ==
    /\ InitIdleResolver
    /\ \E n \in FillLengths : anim = <<EngineDefaults(n)>> /\ pix = <<Clear(n)>>
    /\ shared = NoStatics
    /\ clock = 0
    /\ hist = [NoHist EXCEPT !.calls = 0]

NextFillN ==
    \/ hist.op = "none" /\ DoFillUpIntv(1, StepIntv, 100, 0)
    \/ hist.op # "none" /\ hist.calls < MaxFillCalls /\ isRunning(anim[1])
          /\ DoUpdate(1, StepIntv)

SpecFillN == InitFillN /\ [][NextFillN]_vars

(* The fill of engine 1, on a bar of up to maxLen segments: it reports     *)
(* completion with every segment lit, its progress tracker stays within    *)
(* 0 .. N, and it is over after N + 2 update() calls (setup pass, N        *)
(* steps, and the call that finds the tracker past its bound).             *)
FillRunsToFullBar(maxLen) ==
    (hist.op # "none" /\ anim[1]._segsNum <= maxLen) =>
       /\ (hist.op = "update" /\ hist.done) =>
             \A k \in 0 .. anim[1]._segsNum - 1 : pix[1][k]
       /\ anim[1]._ledTracker1 >= 0
       /\ anim[1]._ledTracker1 <= anim[1]._segsNum
       /\ anim[1]._maxTracker = anim[1]._segsNum - 1
       /\ hist.calls >= anim[1]._segsNum + 2 => ~isRunning(anim[1])

(* C32: for every bar length N from 1 to 255, fillUpIntv over 0-100 %      *)
(* with looping disabled eventually reports completion, all N segments     *)
(* are lit at completion, and the signed 8-bit progress trackers never     *)
(* wrap around.                                                            *)
C32_FillCompletesOnEveryLength == FillRunsToFullBar(255)

(* The same holds on bars of up to 127 segments. *)
FillCompletesUpTo127 == FillRunsToFullBar(127)

(* On 200 segments the fill reports completion at the second update()      *)
(* with segment 0 alone lit: the upper bound 199 is -57 as an int8_t.      *)
FillEndsAtOnceOn200 ==
    /\ hist.op = "update" /\ hist.done /\ hist.calls = 2
    /\ anim[1]._segsNum = 200
    /\ anim[1]._maxTracker = -57
    /\ \A k \in 1 .. 199 : ~pix[1][k]

(* On 128 segments the tracker wraps from 127 to -128 once the bar is      *)
(* full, and the fill goes on.                                             *)
FillWrapsOn128 ==
    /\ hist.calls = anim[1]._segsNum + 2
    /\ anim[1]._segsNum = 128
    /\ isRunning(anim[1])
    /\ anim[1]._ledTracker1 < 0
    /\ \A k \in 0 .. 127 : pix[1][k]

(* It is still running after MaxFillCalls calls. *)
FillNeverEndsOn128 ==
    /\ hist.calls = MaxFillCalls
    /\ anim[1]._segsNum = 128
    /\ isRunning(anim[1])

(***************************************************************************)
(* The level a follower shows.  followSignalSmooth is started on a lit     *)
(* bar with a smoothing factor of 100, so that the smoothed value is the   *)
(* sample itself, and with map ranges whose bounds lie inside the sample   *)
(* range: the samples SignalValues then fall below, inside and above the   *)
(* range.                                                                  *)
(***************************************************************************)
MaxTimeLevel == 80
MapArgs == {<<0, 600>>, <<300, 600>>, <<100, 300>>, <<536, 537>>, <<599, 600>>}

InitLevel == InitFollow

NextLevel ==
    \/ hist.op = "none" /\ DoSetAllOn(1)
    \/ \E mm \in MapArgs :
          /\ BarLit
          /\ StartCall(1, followSignalSmooth(anim[1], "sig1", FollowIntv, mm[1], mm[2],
                                             100, 5))
    \/ /\ hist.op # "none" /\ isRunning(anim[1])
       /\ clock + FollowIntv <= MaxTimeLevel
       /\ DoUpdate(1, FollowIntv)

SpecLevel == InitLevel /\ [][NextLevel]_vars

(* The linear map of a sample from [minM, maxM] to [0, maxLevel], clamped. *)
ClampedLinearLevel(sample, minM, maxM, maxLevel) ==
    IF sample <= minM THEN 0
    ELSE IF sample >= maxM THEN maxLevel
    ELSE ((sample - minM) * maxLevel) \div (maxM - minM)

(* An update that renders the follower's level: past the setup pass and    *)
(* with the update interval elapsed.                                       *)
LevelRendered ==
    /\ hist'.op = "update" /\ anim[1]._currentFunc = "_followSignalSmooth"
    /\ isRunning(anim[1]) /\ ~anim[1]._init
    /\ clock' - anim[1]._lastUpdate1 >= anim[1]._updateIntv1

ShownLevel(p) == Cardinality({k \in DOMAIN p : p[k]})

(* C33: whenever the follower renders, the bar shows the clamped linear    *)
(* map of the sample from [minMap, maxMap] to [0, segsNum]: nothing lit    *)
(* for a sample at or below minMap, the whole bar for a sample at or       *)
(* above maxMap.                                                           *)
C33_LevelIsClampedLinearMap ==
    [][LevelRendered =>
          pix'[1] = BarUpTo(anim'[1],
                            ClampedLinearLevel(anim'[1]._smoothedValue1, anim'[1]._minMap,
                                               anim'[1]._maxMap, FollowSegs))]_vars

(* Inside the range, and wherever map() stays within 0 .. 255, the level   *)
(* is the clamped linear map.                                              *)
LevelIsClampedLinearMapWithin8Bits ==
    [][/\ LevelRendered
       /\ ArduinoMap(anim'[1]._smoothedValue1, anim'[1]._minMap, anim'[1]._maxMap,
                     0, FollowSegs) \in 0 .. 255
       => pix'[1] = BarUpTo(anim'[1],
                            ClampedLinearLevel(anim'[1]._smoothedValue1, anim'[1]._minMap,
                                               anim'[1]._maxMap, FollowSegs))]_vars

(* The level never leaves 0 .. segsNum. *)
LevelWithinBar ==
    hist.op = "update" => ShownLevel(pix[1]) \in 0 .. FollowSegs

(* A rendered sample inside the range: half the bar is lit. *)
LevelShownInsideRange ==
    /\ hist.op = "update" /\ anim[1]._currentFunc = "_followSignalSmooth"
    /\ anim[1]._lastUpdate1 = clock /\ clock > 0
    /\ anim[1]._minMap = 0 /\ anim[1]._maxMap = 600 /\ anim[1]._smoothedValue1 = 300
    /\ ShownLevel(pix[1]) = 2

(* A sample below minMap lights the whole bar. *)
FullBarBelowMinMap ==
    /\ hist.op = "update" /\ anim[1]._currentFunc = "_followSignalSmooth"
    /\ anim[1]._lastUpdate1 = clock /\ clock > FollowIntv
    /\ anim[1]._smoothedValue1 < anim[1]._minMap
    /\ ShownLevel(pix[1]) = FollowSegs

(* A sample above maxMap leaves the bar dark. *)
DarkBarAboveMaxMap ==
    /\ hist.op = "update" /\ anim[1]._currentFunc = "_followSignalSmooth"
    /\ anim[1]._lastUpdate1 = clock /\ clock > FollowIntv
    /\ anim[1]._smoothedValue1 > anim[1]._maxMap
    /\ ShownLevel(pix[1]) = 0

(***************************************************************************)
(* Range correction.  On a bar of 101 segments the trackers a fill starter *)
(* stores are the normalised percentages themselves, map(p, 0, 100, 0,     *)
(* 100) = p; a follower starter stores the corrected map range in _minMap  *)
(* and _maxMap.                                                            *)
(***************************************************************************)
PercentSegs == 101
MaxTimeRange == 20
PercentArgs == {0, 1, 50, 99, 100, 101, 255}
MapBoundArgs == {0, 1, 600, 65534, 65535}

InitRange ==
    /\ InitIdleResolver
    /\ anim = <<EngineDefaults(PercentSegs)>>
    /\ pix = <<Clear(PercentSegs)>>
    /\ shared = NoStatics
    /\ clock = 0
    /\ hist = NoHist

NextRange ==
    \/ \E minP \in PercentArgs, maxP \in PercentArgs :
          hist.op = "none" /\ DoFillUpIntv(1, StepIntv, maxP, minP)
    \/ \E mn \in MapBoundArgs, mx \in MapBoundArgs :
          /\ hist.op = "none"
          /\ StartCall(1, followSignalSmooth(anim[1], "sig1", FollowIntv, mn, mx, 100, 5))
    \/ /\ hist.op # "none" /\ isRunning(anim[1])
       /\ clock + FollowIntv <= MaxTimeRange
       /\ DoUpdate(1, FollowIntv)

SpecRange == InitRange /\ [][NextRange]_vars

PercentRangeOrdered(a) ==
    a._currentFunc = "_fillOrEmpty" => 0 <= a._minTracker /\ a._minTracker < a._maxTracker
                                       /\ a._maxTracker <= PercentSegs - 1

MapRangeOrdered(a) ==
    a._currentFunc = "_followSignalSmooth" => a._minMap < a._maxMap

(* C34: after any starter, the percent range satisfies 0 <= min < max <=   *)
(* 100 and the signal-map range satisfies minMap < maxMap, whatever pair   *)
(* was passed.                                                             *)
C34_RangesStrictlyOrdered ==
    hist.op # "none" => PercentRangeOrdered(anim[1]) /\ MapRangeOrdered(anim[1])

(* Percent ranges are always corrected to 0 <= min < max <= 100. *)
PercentRangesStrictlyOrdered ==
    hist.op # "none" => PercentRangeOrdered(anim[1])

(* Signal-map ranges are corrected to minMap < maxMap unless both inputs   *)
(* are 65535; they never end with minMap = maxMap.                         *)
MapRangesOrderedBelowTop ==
    /\ hist.op # "none" /\ anim[1]._currentFunc = "_followSignalSmooth"
       => anim[1]._minMap # anim[1]._maxMap
    /\ hist.op # "none" /\ anim[1]._minMap # 65535 => MapRangeOrdered(anim[1])

(* Equal percentages of 100 were nudged down to 99 .. 100. *)
EqualPercentsNudged ==
    /\ hist.op = "start" /\ anim[1]._currentFunc = "_fillOrEmpty"
    /\ anim[1]._minTracker = 99 /\ anim[1]._maxTracker = PercentSegs - 1

(* Both map bounds 65535: the range ends as 65535 .. 0. *)
MapRangeInvertedAtTop ==
    /\ hist.op = "start" /\ anim[1]._currentFunc = "_followSignalSmooth"
    /\ anim[1]._minMap = 65535 /\ anim[1]._maxMap = 0

(***************************************************************************)
(* Interval gating.  A fill, an empty, a bounce, colliding blocks or       *)
(* scrolling blocks are started with an interval of GateIntv and updated   *)
(* at timestamps that lie short of the interval, on it, and several        *)
(* intervals past it.                                                      *)
(***************************************************************************)
GateSegs == 6
MaxTimeGate == 150
GateIntv == 10
GateDeltas == {3, GateIntv, 35}

InitGate ==
    /\ InitIdleResolver
    /\ anim = <<EngineDefaults(GateSegs)>>
    /\ pix = <<Clear(GateSegs)>>
    /\ shared = NoStatics
    /\ clock = 0
    /\ hist = NoHist

NextGate ==
    \/ hist.op = "none" /\ DoFillUpIntv(1, GateIntv, 100, 0)
    \/ hist.op = "none" /\ DoEmptyDownIntv(1, GateIntv, 100, 0)
    \/ hist.op = "none" /\ DoBounceFillUpIntv(1, GateIntv, GateIntv, 100, 0)
    \/ hist.op = "none" /\ DoCollidingBlocks(1, GateIntv, 1, 1, 2)
    \/ hist.op = "none" /\ DoScrollingUpBlocks(1, GateIntv, 1, 1, 2)
    \/ \E dt \in GateDeltas :
          /\ hist.op # "none" /\ isRunning(anim[1]) /\ clock + dt <= MaxTimeGate
          /\ DoUpdate(1, dt)

SpecGate == InitGate /\ [][NextGate]_vars

(* An update of a running animation past its setup pass. *)
SteppingUpdate ==
    /\ hist'.op = "update" /\ isRunning(anim[1]) /\ ~anim[1]._init

Gated == SteppingUpdate /\ clock' - anim[1]._lastUpdate1 < anim[1]._updateIntv1

Elapsed == SteppingUpdate /\ clock' - anim[1]._lastUpdate1 >= anim[1]._updateIntv1

FillLike(a) == a._currentFunc \in {"_fillOrEmpty", "_bounceFill"}

BlockLike(a) == a._currentFunc \in {"_mirrorBlocks", "_scrollingBlocks"}

SteppedFrom(a) == FillOrEmptyLogicSwitch(a)._ledTracker1

TrackerClampedShortOfInterval ==
    /\ hist.op = "update" /\ anim[1]._currentFunc = "_bounceFill"
    /\ anim[1]._sequenceState = 1
    /\ anim[1]._lastUpdate1 < clock /\ clock - anim[1]._lastUpdate1 < GateIntv
    /\ anim[1]._ledTracker1 = GateSegs - 1
    /\ ShownLevel(pix[1]) = GateSegs


(***************************************************************************)
(* Bounce cycles.  A full-range bounce and the two half-range mirrored     *)
(* bounces run, once or looping, with a fill interval of BounceFillIntv    *)
(* and an empty interval twice as long, over the whole range and over its  *)
(* upper half.                                                             *)
(***************************************************************************)
BounceSegs == 4
MaxTimeBounce == 200
BounceFillIntv == 10
BounceEmptyIntv == 20
BounceRanges == {<<100, 0>>, <<100, 50>>}

InitBounce ==
    /\ InitIdleResolver
    /\ anim = <<EngineDefaults(BounceSegs)>>
    /\ pix = <<Clear(BounceSegs)>>
    /\ shared = NoStatics
    /\ clock = 0
    /\ hist = NoHist

NextBounce ==
    \/ \E r \in BounceRanges :
          /\ hist.op = "none"
          /\ DoBounceFillUpIntv(1, BounceFillIntv, BounceEmptyIntv, r[1], r[2])
    \/ \E r \in BounceRanges :
          /\ hist.op = "none"
          /\ DoBounceFillFromCenterIntv(1, BounceFillIntv, BounceEmptyIntv, r[1], r[2])
    \/ \E r \in BounceRanges :
          /\ hist.op = "none"
          /\ DoBounceFillFromEdgesIntv(1, BounceFillIntv, BounceEmptyIntv, r[1], r[2])
    \/ hist.op = "start" /\ DoLoop(1)
    \/ \E dt \in {5, BounceFillIntv} :
          /\ hist.op # "none" /\ isRunning(anim[1]) /\ clock + dt <= MaxTimeBounce
          /\ DoUpdate(1, dt)

SpecBounce == InitBounce /\ [][NextBounce]_vars

Bounces == {"_bounceFill", "_bounceFillHalfRangeMirrorCenter"}

(* The update in which phase 0 ends. *)
PhaseZeroCompleted ==
    /\ hist'.op = "update" /\ anim[1]._currentFunc \in Bounces
    /\ anim[1]._sequenceState = 0 /\ anim'[1]._sequenceState = 1

(* The update in which phase 1 ends: the bounce reports completion. *)
CycleCompleted ==
    /\ hist'.op = "update" /\ anim[1]._currentFunc \in Bounces
    /\ anim[1]._sequenceState = 1 /\ hist'.done

(* C36: when phase 1 of a bounce completes, the sequence state is 0 again, *)
(* the active interval is the fill interval again and the rendering logic  *)
(* is the initial logic again, as they were when the cycle began; in       *)
(* between, phase 1 runs on the empty interval with the logic inverted.    *)
C36_CycleClosure ==
    [][/\ CycleCompleted
          => /\ anim'[1]._sequenceState = 0
             /\ anim'[1]._updateIntv1 = BounceFillIntv
             /\ anim'[1]._updateIntv1 = anim'[1]._updateIntv2
             /\ anim'[1]._animRenderLogicIsInverted = anim'[1]._AnimInitLogicIsInverted
       /\ PhaseZeroCompleted
          => /\ anim[1]._updateIntv1 = BounceFillIntv
             /\ anim[1]._animRenderLogicIsInverted = anim[1]._AnimInitLogicIsInverted
             /\ anim'[1]._updateIntv1 = BounceEmptyIntv
             /\ anim'[1]._animRenderLogicIsInverted # anim'[1]._AnimInitLogicIsInverted]_vars

(* Outside phase 1 a bounce always runs on its fill interval. *)
PhaseZeroOnFillInterval ==
    anim[1]._currentFunc \in Bounces /\ anim[1]._sequenceState = 0
    => anim[1]._updateIntv1 = anim[1]._updateIntv2

(* A looping half-range bounce from the edges completed a cycle. *)
C36_Witness ==
    /\ hist.op = "update" /\ hist.done
    /\ anim[1]._currentFunc = "_bounceFillHalfRangeMirrorCenter"
    /\ anim[1]._mirrorHalfRangeDir /\ anim[1]._loop
    /\ anim[1]._sequenceState = 0 /\ anim[1]._updateIntv1 = BounceFillIntv
    /\ ~anim[1]._animRenderLogicIsInverted

(* A full-range bounce completed a cycle. *)
FullRangeCycleCompleted ==
    /\ hist.op = "update" /\ hist.done
    /\ anim[1]._loop /\ anim[1]._currentFunc = "_bounceFill"
    /\ anim[1]._sequenceState = 0 /\ anim[1]._updateIntv1 = BounceFillIntv

(***************************************************************************)
(* downStackingBlocks run to completion: no loop, no logic switch, every   *)
(* update one interval after the last.                                     *)
(***************************************************************************)
DownStackSegs == 7
MaxDownStackCalls == 150
StackLengthArgs == {1, 2, 3, 128}
StackGapArgs == {0, 1, 2}

InitDownStack ==
    /\ InitIdleResolver
    /\ anim = <<EngineDefaults(DownStackSegs)>>
    /\ pix = <<Clear(DownStackSegs)>>
    /\ shared = NoStatics
    /\ clock = 0
    /\ hist = [NoHist EXCEPT !.calls = 0]

NextDownStack ==
    \/ \E l \in StackLengthArgs, sp \in StackGapArgs :
          hist.op = "none" /\ DoDownStackingBlocks(1, StepIntv, l, sp)
    \/ hist.op # "none" /\ hist.calls < MaxDownStackCalls /\ isRunning(anim[1])
          /\ DoUpdate(1, StepIntv)

SpecDownStack == InitDownStack /\ [][NextDownStack]_vars

(* The stacked base pattern of block length l and spacing sp. *)
BasePattern(l, sp) == [i \in 0 .. DownStackSegs - 1 |-> (i % (l + sp)) < l]

StackCompleted == hist.op = "update" /\ hist.done

(* C37: downStackingBlocks reports completion within MaxDownStackCalls     *)
(* updates, with at most one block in flight throughout, and at completion *)
(* segment i is lit exactly when (i mod (L + S)) < L.                      *)
C37_StackCompletesOnBasePattern ==
    /\ hist.calls = MaxDownStackCalls => ~isRunning(anim[1])
    /\ hist.op = "update"
       => Cardinality({i \in 1 .. Len(anim[1]._blocks) : anim[1]._blocks[i].active}) <= 1
    /\ StackCompleted => pix[1] = BasePattern(anim[1]._param1, anim[1]._param2)

(* While block length plus spacing stays below 128 the stacking completes  *)
(* on the base pattern, and no run ever has two blocks in flight.          *)
StackCompletesBelow128 ==
    /\ hist.calls = MaxDownStackCalls /\ StackInterval(anim[1]) < 128
       => ~isRunning(anim[1])
    /\ hist.op = "update"
       => Cardinality({i \in 1 .. Len(anim[1]._blocks) : anim[1]._blocks[i].active}) <= 1
    /\ StackCompleted => pix[1] = BasePattern(anim[1]._param1, anim[1]._param2)

(* A stacking of blocks of length 2 and spacing 1 completed. *)
StackCompletedOnPattern ==
    /\ StackCompleted /\ anim[1]._param1 = 2 /\ anim[1]._param2 = 1
    /\ pix[1] = BasePattern(2, 1)

(* With a block length of 128 the landed block has wrapped the stack level *)
(* back to 0 on a dark bar: the state the run began in.                    *)
StackLevelWrappedToStart ==
    /\ hist.op = "update" /\ isRunning(anim[1]) /\ anim[1]._param1 = 128
    /\ hist.calls > 100
    /\ ~anim[1]._blocks[1].active /\ anim[1]._ledTracker1 = 0
    /\ pix[1] = Clear(DownStackSegs)

(* ... and the run is still going after MaxDownStackCalls updates. *)
StackNeverCompletesOn128 ==
    /\ hist.calls = MaxDownStackCalls /\ isRunning(anim[1]) /\ anim[1]._param1 = 128


(***************************************************************************)
(* Paused and running (under Spec).                                        *)
(***************************************************************************)

(* C38: in every reachable state of every engine, isPaused() implies       *)
(* isRunning().                                                            *)
C38_PausedImpliesRunning ==
    \A e \in DOMAIN anim : isPaused(anim[e]) => isRunning(anim[e])

(* update() and the starters leave the pause flag as it is: only pause(),  *)
(* resume() and stop() write it.                                           *)
PauseFlagWrittenByControlsOnly ==
    [][hist'.op \in {"update", "start"}
       => \A e \in DOMAIN anim : isPaused(anim'[e]) = isPaused(anim[e])]_vars

(* pause() on an engine that runs nothing leaves it paused and idle. *)
PausedWhileIdle ==
    /\ isPaused(anim[1]) /\ ~isRunning(anim[1])
    /\ anim[1]._currentFunc = nullptr

(* An animation started on such an engine is paused from its first moment. *)
StartedAlreadyPaused ==
    /\ hist.op = "start" /\ isPaused(anim[1]) /\ isRunning(anim[1])
    /\ anim[1]._init

(***************************************************************************)
(* Runtime changes of direction and offsets (under SpecResolver).          *)
(***************************************************************************)

(* The segments of bar b that are resolved for comparison. *)
Resolvable(b) == {seg \in ProbeSegs : seg < b._segsNum}

(* The address the values now stored in b call for: direction correction,  *)
(* the segment offset outside matrix mode, then the table entry or the     *)
(* automatic layout, with the matrix offsets added.                        *)
AddressCalledFor(b, seg) ==
    LET mappedSeg == U8(DirCorrected(b, seg)
                        + (IF b._isMatrixMapped THEN 0 ELSE b._segOffset))
    IN  IF b._customMapping # NoMapping THEN CustomBranchRam(b, mappedSeg)
        ELSE AutoMapping(b, mappedSeg)

SegmentOffsetChanged ==
    bar' # bar /\ bar' = [bar EXCEPT !._segOffset = bar'._segOffset]

MatrixOffsetChanged ==
    bar' # bar /\ bar' = [bar EXCEPT !._rowOffset = bar'._rowOffset,
                                     !._colOffset = bar'._colOffset]

OffsetsKeptApart ==
    /\ SegmentOffsetChanged /\ bar._isMatrixMapped
       => \A seg \in Resolvable(bar) :
             GetMappedDevRowCol(bar', seg) = GetMappedDevRowCol(bar, seg)
    /\ MatrixOffsetChanged /\ ~bar._isMatrixMapped
       => \A seg \in Resolvable(bar) :
             GetMappedDevRowCol(bar', seg) = GetMappedDevRowCol(bar, seg)

(* C39: after setDirection, setSegmentOffset or setMatrixOffset the next   *)
(* resolution of any segment uses exactly the values given; a segment      *)
(* offset changes no address of a matrix-mode bar and a matrix offset no   *)
(* address of a linear bar.                                                *)
C39_RuntimeChangesTakeEffect ==
    [][/\ bar' # bar
          => \A seg \in Resolvable(bar') :
                GetMappedDevRowCol(bar', seg) = AddressCalledFor(bar', seg)
       /\ OffsetsKeptApart]_vars

(* Bars other than those on a PROGMEM table resolve with the values given, *)
(* and every bar keeps the two kinds of offset apart.                      *)
RuntimeChangesTakeEffectOffProgmem ==
    [][/\ bar' # bar /\ ~(bar._customMapping # NoMapping /\ bar._userMappingIsProgmem)
          => \A seg \in Resolvable(bar') :
                GetMappedDevRowCol(bar', seg) = AddressCalledFor(bar', seg)
       /\ OffsetsKeptApart]_vars

(* A linear bar resolved after its segment offset was set to 60: segment 5 *)
(* is output 65.                                                           *)
SegmentOffsetInEffect ==
    /\ ~bar._isMatrixMapped /\ bar._segOffset = 60 /\ bar._direction = FORWARD
    /\ res.seg = 5
    /\ res.addr = AutoMapping(bar, 65)

(* A bar on a PROGMEM table resolved with a column offset of 1: the        *)
(* address is the bare table entry.                                        *)
MatrixOffsetWithoutEffect ==
    /\ bar._customMapping # NoMapping /\ bar._userMappingIsProgmem
    /\ bar._colOffset = 1 /\ bar._direction = FORWARD
    /\ res.seg = 0
    /\ res.addr = CustomBranchProgmem(bar, 0)
    /\ res.addr # AddressCalledFor(bar, 0)

(***************************************************************************)
(* The segment count of a rows x columns bar (under SpecResolver).         *)
(***************************************************************************)

(* A bar in matrix mode without a table, on a device the driver has: built *)
(* from a preset or from a matrix size.                                    *)
AutoMatrixBar(b) ==
    b._isMatrixMapped /\ b._customMapping = NoMapping /\ ~DevInvalid(b)

(* C40: a matrix-mode bar on a valid device has rowsNum x colsNum          *)
(* segments, colsNum being clamped to the device's columns: getSegsNum()   *)
(* returns that count and no LED outside these segments is ever lit.       *)
C40_MatrixSegmentCount ==
    AutoMatrixBar(bar)
    => /\ bar._segsNum = bar._rowsNum * bar._colsNum
       /\ bar._colsNum <= maxColumns
       /\ \A addr \in leds :
             \E seg \in 0 .. bar._rowsNum * bar._colsNum - 1 :
                \E ro \in RowOffsetArgs, co \in ColOffsetArgs, dir \in Directions :
                   addr = GetMappedDevRowCol([bar EXCEPT !._rowOffset = ro,
                                                         !._colOffset = co,
                                                         !._direction = dir], seg)

(* Preset bars do have rowsNum x colsNum segments, and the matrix-size     *)
(* constructor does clamp colsNum to the device's columns.                 *)
PresetSegmentCount ==
    AutoMatrixBar(bar) /\ bar._rowsNum * bar._colsNum = 28
    => bar._segsNum = 28 /\ bar._colsNum <= maxColumns

MatrixColumnsClamped ==
    AutoMatrixBar(bar) => bar._colsNum \in 1 .. maxColumns

(* A 4 x 2 bar whose segment count is 255. *)
MatrixCountUndefined ==
    /\ AutoMatrixBar(bar) /\ bar._rowsNum = 4 /\ bar._colsNum = 2
    /\ bar._segsNum = 255

(* Segment 27 of a forward 4 x 2 bar was lit. *)
LitBeyondMatrix ==
    /\ AutoMatrixBar(bar) /\ bar._rowsNum = 4 /\ bar._colsNum = 2
    /\ bar._direction = FORWARD
    /\ GetMappedDevRowCol(bar, 27) \in leds
=============================================================================
